---------------------------- MODULE Spec2Model ----------------------------
(***************************************************************************)
(* AI-Intel: the staged execution engine (Scheduler + Pipeline), the state *)
(* store (state.json) and the dedup processor, as a state machine.         *)
(*                                                                         *)
(* Python values are modelled as follows.                                  *)
(*   dict            a function whose DOMAIN is the set of its keys        *)
(*   None / a value  the empty sequence <<>> / the one-element <<v>>       *)
(*   a JSON file     <<>> while it does not exist, <<content>> otherwise   *)
(*   a date          the day number (format_date), 1 for the first day     *)
(*   a timestamp     <<day, hour of the day>> (format_datetime)            *)
(*   an item id      a string; "" is the falsy id                          *)
(***************************************************************************)
EXTENDS Integers, Sequences, FiniteSets, TLC

VARIABLES
    now,            \* the wall clock, in hours since the first midnight
    stateFile,      \* data/state.json
    collectedFile,  \* data/collected_updates.json (the collect artifact)
    updatesFile,    \* data/updates.json (the process artifact)
    reportsFile,    \* data/reports.json: the reports appended so far
    context,        \* Pipeline._context of the running process
    pc,             \* Scheduler.run: "idle", or the stage the loop is at
    mode,           \* "normal" or "forced": which branch of Scheduler.run
    today,          \* the local `today` of the running Scheduler.run
    ran,            \* per stage, what this run did: "no", "ok" or "raised"
    dd,             \* direct calls on one component: what they were given, read and did
    hist,           \* the first failed process invocation still awaiting a success
    okToday         \* the stages whose body completed in normal mode, and on which day

vars == <<now, stateFile, collectedFile, updatesFile, reportsFile, context,
          pc, mode, today, ran, dd, hist, okToday>>

(***************************************************************************)
(* Bounds of the model.                                                    *)
(***************************************************************************)
\* The days the clock runs through.
MaxDays == 2
\* The longest list one collect invocation (or one direct dedup call) is given.
MaxItems == 2
\* MAX_PROCESSED_HASHES is 50000 in the source; the model runs the same
\* truncation with the cap scaled down to this value so that eviction happens.
ScaledCap == 2
\* Reports appended before generate is no longer scheduled.
MaxReports == 1
\* The longest list the filtering processor is given when it is called alone.
MaxFilterLen == 4
\* The most collectors a configuration names.
MaxCollectors == 3

(***************************************************************************)
(* Python helpers.                                                         *)
(***************************************************************************)
None == <<>>
Some(v) == <<v>>

EmptyDict == [k \in {} |-> None]
DictGet(d, k) == IF k \in DOMAIN d THEN Some(d[k]) ELSE None
DictSet(d, k, v) == [x \in (DOMAIN d) \cup {k} |-> IF x = k THEN v ELSE d[x]]

\* s[-n:]
LastN(s, n) == IF Len(s) <= n THEN s ELSE SubSeq(s, Len(s) - n + 1, Len(s))
\* s[:n]
FirstN(s, n) == IF Len(s) <= n THEN s ELSE SubSeq(s, 1, n)
SeqSet(s) == {s[i] : i \in 1..Len(s)}

(***************************************************************************)
(* utils/time_utils.py                                                     *)
(***************************************************************************)
\* get_now: the clock is read in steps of a day by the scheduler runs, and in
\* steps of TickHours where the state store and the dedup processor are called
\* directly (so that two timestamps of one day can differ).
DayHours == 24
TickHours == 12

format_date(dt) == (dt \div 24) + 1
format_datetime(dt) == <<format_date(dt), dt % 24>>


(***************************************************************************)
(* models/update.py: an item is an Update object (as the collectors build  *)
(* it) or the dict its to_dict() gives (as the JSON artifacts hold it).    *)
(* published_at is None for "" and Some(h) for a timestamp at hour h.      *)
(***************************************************************************)
Update(id, title, source, published_at, stars_today) ==
    [kind |-> "Update", id |-> id, title |-> title, source |-> source,
     published_at |-> published_at, score |-> 0, stars_today |-> stars_today]

\* A wrong serialisation: the trend metric is never written.
to_dict_without_metric(u) ==
    LET keys == {"kind", "id", "title", "source", "published_at", "score"}
    IN  [k \in keys |-> IF k = "kind" THEN "dict" ELSE u[k]]

\* Update.to_dict: the stars_today key is written only when it is not None.
to_dict(u) ==
    LET keys == {"kind", "id", "title", "source", "published_at", "score"}
                    \cup (IF u.stars_today = None THEN {} ELSE {"stars_today"})
    IN  [k \in keys |-> IF k = "kind" THEN "dict"
                        ELSE IF k = "stars_today" THEN u.stars_today[1]
                        ELSE u[k]]

\* Pipeline._to_updates_payload's inner to_dict: objects are converted, dicts kept.
payload_to_dict(u) == IF u.kind = "Update" THEN to_dict(u) ELSE u

\* getattr(u, "id", None) or (u.get("id") if isinstance(u, dict) else None)
ItemId(u) == u.id

(***************************************************************************)
(* The items the collectors of the modelled deployment can deliver: their  *)
(* ids are SHA-256 digests (utils/hashing.py), so never empty.  U1b is     *)
(* another item with the id of U1 (the id hashes the url alone).           *)
(***************************************************************************)
U1  == Update("h1", "AI agent", "github", None, Some(300))
U1b == Update("h1", "AI agent v2", "hackernews", Some(0), None)
U2  == Update("h2", "paper", "arxiv", Some(12), None)
U3  == Update("h3", "blog post", "blog", None, None)
\* An item without a usable id, as a direct caller of the dedup processor may pass.
UNoId == Update("", "untitled", "other", None, None)

\* What the collectors of one run deliver, in order (a url met twice gives the
\* same item twice).
CollectInputs == {<<>>, <<U1>>, <<U2>>, <<U1, U1>>, <<U1, U2>>}
\* What a direct caller of the dedup processor passes.
DedupItems == {U1, U1b, U2, UNoId}
StoreItems == {U1, U2, U3}

SeqsUpTo(S, n) == UNION {[1..k -> S] : k \in 0..n}

(***************************************************************************)
(* storage/json_store.py and storage/state_store.py                        *)
(***************************************************************************)
STAGES == <<"collect", "process", "generate">>
StageSet == SeqSet(STAGES)

\* What a file holds: None when it does not exist, Some(v) when it holds the JSON
\* text of the object v, and otherwise one of these pairs.
Unreadable == <<"unreadable", "open() fails with OSError">>
NotJson == <<"text", "not JSON">>
JsonArray == <<"json", "a value that is not an object">>
NotUtf8 == <<"bytes", "not UTF-8">>
DamagedFiles == {Unreadable, NotJson, JsonArray, NotUtf8}

\* What stands for the value of a call that raised: any use of it is an error.
Raised == "UnicodeDecodeError"

\* JSONStore.read_json raises: json.load decodes the bytes first, and the
\* UnicodeDecodeError of that is neither a JSONDecodeError nor an OSError.
read_json_raises(file) == Len(file) = 2 /\ file[1] = "bytes"

\* JSONStore.read_json: None for a missing file, for one that cannot be opened
\* and for one that is not JSON text, else the parsed content.
read_json(file) ==
    IF read_json_raises(file) THEN Raised
    ELSE IF Len(file) = 2 /\ file[1] \in {"unreadable", "text"} THEN None
    ELSE file
\* JSONStore.write_json
write_json(data) == Some(data)

\* StateStore.load_state: {} when the file is missing or holds no (non-empty) dict.
load_state_raises(file) == read_json_raises(file)

load_state(file) ==
    IF load_state_raises(file) THEN Raised
    ELSE LET data == read_json(file)
         IN  IF data = None \/ Len(data) # 1 THEN EmptyDict ELSE data[1]

save_state(state) == write_json(state)

get_stage_last_success(file, stage) ==
    LET state == load_state(file)
    IN  IF stage \notin DOMAIN state THEN None
        ELSE DictGet(state[stage], "last_success")

\* A wrong set_stage_last_success: writes a fresh state holding the one stage.
set_stage_last_success_clobber(file, stage, date) ==
    save_state(DictSet(EmptyDict, stage, DictSet(EmptyDict, "last_success", date)))

set_stage_last_success(file, stage, date) ==
    LET state == load_state(file)
        entry == IF stage \in DOMAIN state THEN state[stage] ELSE EmptyDict
    IN  save_state(DictSet(state, stage, DictSet(entry, "last_success", date)))

get_last_run(file) == DictGet(load_state(file), "last_run")

\* state.get("processed_items_hash") or []
processed_items_hash(state) ==
    IF "processed_items_hash" \in DOMAIN state THEN state["processed_items_hash"] ELSE <<>>

(***************************************************************************)
(* processor/deduplicate.py                                                *)
(***************************************************************************)
MAX_PROCESSED_HASHES == ScaledCap

\* last_run[:10] of the stored timestamp, "" (None here) when there is none.
last_run_date(state) ==
    LET last_run == DictGet(state, "last_run")
    IN  IF last_run = None THEN None ELSE Some(last_run[1][1])

\* A wrong daily reset: the stored list is carried over whatever its date.
DailyResetNever(state, tdy) == state

\* The daily reset: the list is emptied (in memory) when the last run was not today.
DailyReset(state, tdy) ==
    IF last_run_date(state) # Some(tdy)
    THEN DictSet(state, "processed_items_hash", <<>>)
    ELSE state

RECURSIVE DedupWalkNoSameRun(_, _)
\* A wrong walk: an id kept earlier in the same call is not added to seen.
DedupWalkNoSameRun(updates, seen) ==
    IF updates = <<>> THEN <<>>
    ELSE LET u == Head(updates)
             uid == ItemId(u)
         IN  IF uid = "" \/ uid \in seen
             THEN DedupWalkNoSameRun(Tail(updates), seen)
             ELSE <<u>> \o DedupWalkNoSameRun(Tail(updates), seen)

RECURSIVE DedupWalkRec(_, _)
DedupWalkRec(updates, seen) ==
    IF updates = <<>> THEN <<>>
    ELSE LET u == Head(updates)
             uid == ItemId(u)
         IN  IF uid = "" THEN DedupWalkRec(Tail(updates), seen)
             ELSE IF uid \in seen THEN DedupWalkRec(Tail(updates), seen)
             ELSE <<u>> \o DedupWalkRec(Tail(updates), seen \cup {uid})

\* A wrong walk: every item is kept.
DedupWalkKeepAll(updates, seen) == updates

\* The loop over updates: the list `unique` it builds, given the seen set.
DedupWalk(updates, seen) == DedupWalkRec(updates, seen)

IdsOf(updates) == [i \in 1..Len(updates) |-> ItemId(updates[i])]

\* A wrong truncation: keeps the oldest entries.
TruncateOldest(hashes) == FirstN(hashes, MAX_PROCESSED_HASHES)

\* state["processed_items_hash"][-MAX_PROCESSED_HASHES:]
Truncate(hashes) == LastN(hashes, MAX_PROCESSED_HASHES)

\* A wrong dedup: the seen set starts empty instead of from the stored list.
Deduplicate_process_fresh_seen(updates, file, dt) ==
    LET tdy == format_date(dt)
        state == DailyReset(load_state(file), tdy)
        unique == DedupWalk(updates, {})
        new_hashes == IdsOf(unique)
        state2 == DictSet(DictSet(state, "processed_items_hash",
                                  Truncate(processed_items_hash(state) \o new_hashes)),
                          "last_run", format_datetime(dt))
    IN  [updates |-> unique,
         file |-> IF new_hashes # <<>> THEN save_state(state2) ELSE file]

\* A wrong dedup: what it saves holds the fingerprints and the timestamp only.
Deduplicate_process_own_keys(updates, file, dt) ==
    LET tdy == format_date(dt)
        state == DailyReset(load_state(file), tdy)
        seen == SeqSet(processed_items_hash(state))
        unique == DedupWalk(updates, seen)
        new_hashes == IdsOf(unique)
        state2 == DictSet(DictSet(EmptyDict, "processed_items_hash",
                                  Truncate(processed_items_hash(state) \o new_hashes)),
                          "last_run", format_datetime(dt))
    IN  [updates |-> unique,
         file |-> IF new_hashes # <<>> THEN save_state(state2) ELSE file]

\* A wrong dedup: the state is saved also when no id was new.
Deduplicate_process_always_save(updates, file, dt) ==
    LET tdy == format_date(dt)
        state == DailyReset(load_state(file), tdy)
        seen == SeqSet(processed_items_hash(state))
        unique == DedupWalk(updates, seen)
        new_hashes == IdsOf(unique)
        state2 == DictSet(DictSet(state, "processed_items_hash",
                                  Truncate(processed_items_hash(state) \o new_hashes)),
                          "last_run", format_datetime(dt))
    IN  [updates |-> unique, file |-> save_state(state2)]

\* DeduplicateProcessor.process on context["updates"] = updates at time dt:
\* the new context["updates"] and the new state.json.
Deduplicate_process(updates, file, dt) ==
    LET tdy == format_date(dt)
        state == DailyReset(load_state(file), tdy)
        seen == SeqSet(processed_items_hash(state))
        unique == DedupWalk(updates, seen)
        new_hashes == IdsOf(unique)
        state2 == DictSet(DictSet(state, "processed_items_hash",
                                  Truncate(processed_items_hash(state) \o new_hashes)),
                          "last_run", format_datetime(dt))
    IN  [updates |-> unique,
         file |-> IF new_hashes # <<>> THEN save_state(state2) ELSE file]

(***************************************************************************)
(* processor/scoring.py.  Scores are held as integers, in units of 1/300:  *)
(* every term of the formula is then whole for whole hours and stars.      *)
(***************************************************************************)
ScoreUnit == 3 * 100

\* The configuration of the modelled deployment: config["keywords"] and the
\* defaults of config["scoring"].
Keywords == <<"AI">>
keyword_weight == 1
trending_weight == 2
recency_weight == 1

\* `k in title` for the keywords and titles of the model.
InTitle(k, title) == <<k, title>> \in {<<"AI", "AI agent">>, <<"AI", "AI agent v2">>}

\* getattr(u, "stars_today", None) or u.get("stars_today")
StarsToday(u) ==
    IF "stars_today" \notin DOMAIN u THEN None
    ELSE IF u.kind = "Update" THEN u.stars_today
    ELSE Some(u.stars_today)

\* A published_at string that is neither ISO nor YYYY-MM-DD in its first ten
\* characters.
BadDate == <<"text", "not a date">>

\* parse_published_at(published_at) if published_at else None
parse_published_at(u) ==
    IF Len(u.published_at) = 2 THEN None ELSE u.published_at

\* hours_ago(dt, now)
hours_ago(dt, from_dt) == from_dt - dt

Min(a, b) == IF a <= b THEN a ELSE b
Max(a, b) == IF a >= b THEN a ELSE b

\* config["scoring"] as ScoringProcessor.__init__ reads it.
Scoring(kw, tw, rw) ==
    [keyword_weight |-> kw, trending_weight |-> tw, recency_weight |-> rw]
DefaultScoring == Scoring(keyword_weight, trending_weight, recency_weight)

\* A wrong trending term: the normalized value is not capped at 10.
trending_score_uncapped(u, weight) ==
    LET stars == StarsToday(u)
    IN  IF stars # None /\ stars[1] > 0
        THEN stars[1] * (ScoreUnit \div 100) * weight
        ELSE 0

\* _compute_score, lines 45-51: the trending term.
trending_score(u, weight) ==
    LET stars == StarsToday(u)
    IN  IF stars # None /\ stars[1] > 0
        THEN Min(stars[1] * (ScoreUnit \div 100), 10 * ScoreUnit) * weight
        ELSE 0

\* A wrong score: the recency term is not floored at 0, and an item without a
\* date gets none.
score_of_unfloored(u, dt, scoring) ==
    LET keyword_count == Cardinality({i \in 1..Len(Keywords) :
                             Keywords[i] # "" /\ InTitle(Keywords[i], u.title)})
        pub == parse_published_at(u)
    IN  keyword_count * scoring.keyword_weight * ScoreUnit
            + trending_score(u, scoring.trending_weight)
            + (IF pub # None
               THEN (((24 - hours_ago(pub[1], dt)) * 10 * ScoreUnit) \div 24)
                        * scoring.recency_weight
               ELSE 0)

\* ScoringProcessor(config)._compute_score(u, now, max_stars); max_stars is not
\* read.
score_of(u, dt, scoring) ==
    LET keyword_count == Cardinality({i \in 1..Len(Keywords) :
                             Keywords[i] # "" /\ InTitle(Keywords[i], u.title)})
        keyword_score == keyword_count * scoring.keyword_weight * ScoreUnit
        pub == parse_published_at(u)
        recency_score ==
            IF pub # None
            THEN Max(0, ((24 - hours_ago(pub[1], dt)) * 10 * ScoreUnit) \div 24)
                     * scoring.recency_weight
            ELSE 5 * ScoreUnit * scoring.recency_weight
    IN  keyword_score + trending_score(u, scoring.trending_weight) + recency_score

compute_score(u, dt) == score_of(u, dt, DefaultScoring)

\* A wrong processor: the list comes back ranked, best first.
score_process_ranked(updates, dt, scoring) ==
    LET scored == [i \in 1..Len(updates) |->
                      [updates[i] EXCEPT !["score"] = score_of(updates[i], dt, scoring)]]
        Better(i, j) == scored[i].score > scored[j].score
                            \/ (scored[i].score = scored[j].score /\ i > j)
        Place(i) == 1 + Cardinality({j \in 1..Len(scored) : Better(j, i)})
    IN  [k \in 1..Len(scored) |-> scored[CHOOSE i \in 1..Len(scored) : Place(i) = k]]

\* ScoringProcessor(config).process: every item's score is set, in place.
score_process(updates, dt, scoring) ==
    [i \in 1..Len(updates) |->
        [updates[i] EXCEPT !["score"] = score_of(updates[i], dt, scoring)]]

ScoringProcessor_process(updates, dt) == score_process(updates, dt, DefaultScoring)

(***************************************************************************)
(* processor/filtering.py.  config["limits"] is a record [top_n,            *)
(* days_window, quota_arxiv_rss, quota_github], a quota being None when    *)
(* the key is absent.  The modelled deployment configures no quotas.       *)
(***************************************************************************)
top_n == 5
days_window == 7
DefaultLimits == [top_n |-> top_n, days_window |-> days_window,
                  quota_arxiv_rss |-> None, quota_github |-> None]

\* str.lower() on the sources, urls and tags of the model.
Lower(s) ==
    CASE s = "arXiv" -> "arxiv"
      [] s = "GitHub Trending" -> "github trending"
      [] s = "Blog" -> "blog"
      [] s = "cs.AI" -> "cs.ai"
      [] OTHER -> s

\* `sub in s` for the lowered sources and urls of the model.
Contains(sub, s) ==
    <<sub, s>> \in {<<"arxiv", "arxiv">>,
                    <<"arxiv.org", "https://arxiv.org/abs/1">>,
                    <<"github", "github trending">>,
                    <<"github", "github">>,
                    <<"cs.", "cs.ai">>,
                    <<"github.com", "https://github.com/o/r">>}

\* _source_bucket(u)
source_bucket(u) ==
    LET src == Lower(u.source)
        url == Lower(u.url)
        tag_set == {Lower(t) : t \in u.tags}
    IN  IF Contains("arxiv", src) \/ "arxiv" \in tag_set \/ Contains("arxiv.org", url)
        THEN "arxiv_rss"
        ELSE IF /\ "blog" \in tag_set \/ "research" \in tag_set
                /\ ~Contains("github.com", url)
                /\ "trending" \notin tag_set
        THEN "arxiv_rss"
        ELSE IF \/ Contains("github", src)
                \/ Contains("github.com", url)
                \/ "trending" \in tag_set
        THEN "github"
        ELSE "other"

\* A wrong day-window pass: an item without a parseable date is dropped.
within_window_dated(u, dt, window) ==
    LET pub == parse_published_at(u)
    IN  pub # None /\ format_date(dt) - format_date(pub[1]) <= window

\* The day-window pass: items without a parseable date are kept.
within_window(u, dt, window) ==
    LET pub == parse_published_at(u)
    IN  pub = None \/ format_date(dt) - format_date(pub[1]) <= window

WithinWindow(u, dt) == within_window(u, dt, days_window)

\* getattr(u, "score", None) or u.get("score") or 0
score_key(u) == u.score

RECURSIVE InsertDesc(_, _)
\* u placed behind every item of `sorted` whose key is not smaller.
InsertDesc(sorted, u) ==
    IF sorted = <<>> THEN <<u>>
    ELSE IF score_key(Head(sorted)) >= score_key(u)
         THEN <<Head(sorted)>> \o InsertDesc(Tail(sorted), u)
         ELSE <<u>> \o sorted

RECURSIVE SortDescFrom(_, _)
SortDescFrom(sorted, rest) ==
    IF rest = <<>> THEN sorted
    ELSE SortDescFrom(InsertDesc(sorted, Head(rest)), Tail(rest))

\* list.sort(key=score_key, reverse=True): stable, descending.
SortByScoreDesc(s) == SortDescFrom(<<>>, s)

\* A wrong quota mode: what a bucket leaves of its quota is filled with the
\* best items not yet selected, whatever their source.
filter_fill_shortfall(updates, dt, limits) ==
    LET InWindow(u) == within_window(u, dt, limits.days_window)
        kept == SelectSeq(updates, InWindow)
        InArxivRss(u) == source_bucket(u) = "arxiv_rss"
        InGithub(u) == source_bucket(u) = "github"
    IN  IF limits.quota_arxiv_rss # None /\ limits.quota_github # None
        THEN LET q_ar == Max(0, limits.quota_arxiv_rss[1])
                 q_gh == Max(0, limits.quota_github[1])
                 ar == SortByScoreDesc(SelectSeq(kept, InArxivRss))
                 gh == SortByScoreDesc(SelectSeq(kept, InGithub))
                 selected == FirstN(ar, q_ar) \o FirstN(gh, q_gh)
                 NotInArxivRss(u) == ~InArxivRss(u)
                 rest == SortByScoreDesc(
                             SubSeq(ar, Min(Len(ar), q_ar) + 1, Len(ar))
                                 \o SubSeq(gh, Min(Len(gh), q_gh) + 1, Len(gh))
                                 \o SelectSeq(SelectSeq(kept, NotInArxivRss),
                                              LAMBDA u : ~InGithub(u)))
             IN  SortByScoreDesc(selected \o FirstN(rest, q_ar + q_gh - Len(selected)))
        ELSE FirstN(SortByScoreDesc(kept), limits.top_n)

\* A wrong quota mode: the two quotas are filled from one list of all sources.
filter_global_top(updates, dt, limits) ==
    LET InWindow(u) == within_window(u, dt, limits.days_window)
        kept == SelectSeq(updates, InWindow)
    IN  IF limits.quota_arxiv_rss # None /\ limits.quota_github # None
        THEN FirstN(SortByScoreDesc(kept),
                    Max(0, limits.quota_arxiv_rss[1]) + Max(0, limits.quota_github[1]))
        ELSE FirstN(SortByScoreDesc(kept), limits.top_n)

\* FilteringProcessor(config).process on context["updates"] = updates at time dt.
filter_process(updates, dt, limits) ==
    LET InWindow(u) == within_window(u, dt, limits.days_window)
        kept == SelectSeq(updates, InWindow)
        InArxivRss(u) == source_bucket(u) = "arxiv_rss"
        InGithub(u) == source_bucket(u) = "github"
    IN  IF limits.quota_arxiv_rss # None /\ limits.quota_github # None
        THEN LET q_ar == Max(0, limits.quota_arxiv_rss[1])
                 q_gh == Max(0, limits.quota_github[1])
                 selected ==
                     FirstN(SortByScoreDesc(SelectSeq(kept, InArxivRss)), q_ar)
                         \o FirstN(SortByScoreDesc(SelectSeq(kept, InGithub)), q_gh)
             IN  SortByScoreDesc(selected)
        ELSE FirstN(SortByScoreDesc(kept), limits.top_n)

FilteringProcessor_process(updates, dt) == filter_process(updates, dt, DefaultLimits)

(***************************************************************************)
(* core/pipeline.py.  A stage body is an operator from the state it reads  *)
(* and the outcome of the external calls to the state it leaves behind:    *)
(* [raised, context, stateFile, collectedFile, updatesFile, reportsFile].  *)
(***************************************************************************)
\* The processors of the modelled deployment, in config["processors"] order.
Processors == <<"deduplicate", "scoring", "filtering">>

\* self._context.get("updates", [])
ctx_updates(ctx) == IF "updates" \in DOMAIN ctx THEN ctx["updates"] ELSE <<>>

\* Pipeline._to_updates_payload(updates)["updates"]
to_updates_payload(updates) == [i \in 1..Len(updates) |-> payload_to_dict(updates[i])]

\* Pipeline._load_collected_updates
load_collected_updates(file) ==
    LET raw == read_json(file)
    IN  IF raw = None THEN <<>> ELSE raw[1].updates

Result(raised, ctx, sf, cf, uf, rf) ==
    [raised |-> raised, context |-> ctx, stateFile |-> sf,
     collectedFile |-> cf, updatesFile |-> uf, reportsFile |-> rf]

\* A collector of config["collectors"]: a SignalCollector (it writes its own
\* files and leaves context["updates"] alone) or a ContentCollector with the
\* items its collect() appends.
SignalCollector == [role |-> "signal", items |-> <<>>]
ContentCollector(items) == [role |-> "content", items |-> items]

\* The two loops of Pipeline._run_collect over self.collectors: the positions
\* of the collectors in the order their collect() is called.
collect_order(collectors) ==
    LET IsSignal(i) == collectors[i].role = "signal"
        IsContent(i) == collectors[i].role = "content"
        positions == [i \in 1..Len(collectors) |-> i]
    IN  SelectSeq(positions, IsSignal) \o SelectSeq(positions, IsContent)

RECURSIVE collect_calls(_, _, _)
\* context["updates"] after the collectors at the positions `order` ran on it.
collect_calls(collectors, order, updates) ==
    IF order = <<>> THEN updates
    ELSE collect_calls(collectors, Tail(order),
                       updates \o collectors[Head(order)].items)

\* A wrong collect body: the working list of the process is kept and appended to.
run_collect_carry(items, ok) ==
    IF ok
    THEN Result(FALSE, DictSet(EmptyDict, "updates", ctx_updates(context) \o items),
                stateFile,
                write_json([updates |-> to_updates_payload(ctx_updates(context) \o items)]),
                updatesFile, reportsFile)
    ELSE Result(TRUE, DictSet(EmptyDict, "updates", ctx_updates(context) \o items),
                stateFile, collectedFile, updatesFile, reportsFile)

\* Pipeline._run_collect.  `items` is what the content collectors appended, in
\* order, before the body ended: normally (ok), or because a collector or the
\* final write raised.
run_collect(items, ok) ==
    IF ok
    THEN Result(FALSE, DictSet(EmptyDict, "updates", items), stateFile,
                write_json([updates |-> to_updates_payload(items)]),
                updatesFile, reportsFile)
    ELSE Result(TRUE, DictSet(EmptyDict, "updates", items), stateFile,
                collectedFile, updatesFile, reportsFile)

\* p.process(self._context) for the processor named p: the working list and
\* state.json it leaves.
apply_processor(p, st, dt) ==
    CASE p = "deduplicate" -> Deduplicate_process(st.updates, st.file, dt)
      [] p = "scoring" -> [updates |-> ScoringProcessor_process(st.updates, dt),
                           file |-> st.file]
      [] p = "filtering" -> [updates |-> FilteringProcessor_process(st.updates, dt),
                             file |-> st.file]

RECURSIVE run_chain(_, _, _, _)
\* The first k processors of `procs`, in order, each on what the previous one left.
run_chain(procs, k, st, dt) ==
    IF k = 0 \/ procs = <<>> THEN st
    ELSE run_chain(Tail(procs), k - 1, apply_processor(Head(procs), st, dt), dt)

\* Pipeline._save_updates
save_updates(updates, date) ==
    write_json([date |-> date, updates |-> to_updates_payload(updates)])

\* A wrong process body: after a processor raised, the remaining processors
\* still run before the stage ends as failed.
run_process_continue(failAt, dt) ==
    LET loaded == IF ctx_updates(context) = <<>>
                  THEN load_collected_updates(collectedFile)
                  ELSE ctx_updates(context)
        st == run_chain(Processors, Len(Processors),
                        [updates |-> loaded, file |-> stateFile], dt)
    IN  Result(failAt # 0, DictSet(context, "updates", st.updates), st.file,
               collectedFile,
               IF failAt = 0 THEN save_updates(st.updates, format_date(dt))
               ELSE updatesFile,
               reportsFile)

\* A wrong process body: updates.json is written from the list as loaded.
run_process_stale(failAt, dt) ==
    LET loaded == IF ctx_updates(context) = <<>>
                  THEN load_collected_updates(collectedFile)
                  ELSE ctx_updates(context)
        st == run_chain(Processors, Len(Processors),
                        [updates |-> loaded, file |-> stateFile], dt)
    IN  Result(failAt # 0, DictSet(context, "updates", st.updates), st.file,
               collectedFile,
               IF failAt = 0 THEN save_updates(loaded, format_date(dt))
               ELSE updatesFile,
               reportsFile)

\* Pipeline._run_process.  failAt = 0: nothing raises.  failAt = k in
\* 1..Len(Processors): processor k raises (after the k-1 before it completed).
\* failAt = Len(Processors) + 1: the write of updates.json raises.
run_process(failAt, dt) ==
    LET loaded == IF ctx_updates(context) = <<>>
                  THEN load_collected_updates(collectedFile)
                  ELSE ctx_updates(context)
        st0 == [updates |-> loaded, file |-> stateFile]
        done == IF failAt = 0 THEN Len(Processors) ELSE Min(failAt - 1, Len(Processors))
        st == run_chain(Processors, done, st0, dt)
        ctx == DictSet(context, "updates", st.updates)
    IN  IF failAt = 0
        THEN Result(FALSE, ctx, st.file, collectedFile,
                    save_updates(st.updates, format_date(dt)), reportsFile)
        ELSE Result(TRUE, ctx, st.file, collectedFile, updatesFile, reportsFile)

(***************************************************************************)
(* generator/llm_client.py.  What the report API does to one call of       *)
(* chat_completion is a script: whether an API key is set, how many of the *)
(* first requests are answered 429 or 503, and what the next request gets. *)
(***************************************************************************)
LLM_RETRY_COUNT == 3

ApiFinals == {"text", "blank", "no choices", "error status", "exception"}
\* (The parts of a script that no request can reach are fixed.)
ApiScripts ==
    {api \in [key : BOOLEAN, limited : 0..(LLM_RETRY_COUNT + 1), final : ApiFinals] :
        (~api.key \/ api.limited > LLM_RETRY_COUNT) =>
            (api.final = "text" /\ (~api.key => api.limited = 0))}

\* Why a script yields no text: "" when it does yield text.
ApiCause(api) ==
    IF ~api.key THEN "missing key"
    ELSE IF api.limited > LLM_RETRY_COUNT THEN "rate limit exhausted"
    ELSE IF api.final = "text" THEN ""
    ELSE api.final

RECURSIVE chat_attempt(_, _)
\* The body of the loop `for attempt in range(LLM_RETRY_COUNT + 1)` from
\* `attempt` on, and what follows the loop.
chat_attempt(api, attempt) ==
    IF attempt > LLM_RETRY_COUNT THEN ""
    ELSE IF attempt < api.limited
         THEN \* 429 or 503: sleep and retry, or raise_for_status on the last attempt
              IF attempt < LLM_RETRY_COUNT THEN chat_attempt(api, attempt + 1) ELSE ""
         ELSE IF api.final = "text" THEN "report text"
         ELSE \* blank content, no choices, HTTPError, or any other exception
              ""

\* chat_completion(...): the assistant text, "" when there is none.
chat_completion(api) == IF ~api.key THEN "" ELSE chat_attempt(api, 0)

\* Everything chat_completion can return.
ChatResults == {chat_completion(api) : api \in ApiScripts}

(***************************************************************************)
(* generator/daily_report.py                                               *)
(***************************************************************************)
\* A wrong _append_report: the file is rewritten with the new report alone.
append_report_latest_only(file, content, fallback, dt) ==
    write_json([reports |-> <<[date |-> format_date(dt),
                               content |-> IF content # "" THEN content ELSE fallback]>>])

\* DailyReportGenerator._append_report(content, fallback)
append_report(file, content, fallback, dt) ==
    LET existing == IF read_json(file) = None THEN <<>> ELSE read_json(file)[1].reports
        \* Report.id and Report.generated_at follow from these and are left out.
        report == [date |-> format_date(dt),
                   content |-> IF content # "" THEN content ELSE fallback]
    IN  write_json([reports |-> Append(existing, report)])

\* The ids of the signals generate() combines: the first top_n updates with a
\* non-empty id, plus the video signals when videos.json yields any.
combined_ids(updates, videos) ==
    ({ItemId(u) : u \in SeqSet(FirstN(updates, top_n))} \ {""})
        \cup (IF videos THEN {"video"} ELSE {})

\* The item list generate() works on: context["updates"], loaded from
\* updates.json when the context has none.
generate_updates ==
    LET raw == read_json(updatesFile)
    IN  IF ctx_updates(context) # <<>> THEN ctx_updates(context)
        ELSE IF raw = None THEN <<>> ELSE raw[1].updates

\* generate() reaches the call of chat_completion (line 68).
generate_calls_api(videos) ==
    generate_updates # <<>> /\ combined_ids(generate_updates, videos) # {}

\* A wrong generate: an empty answer of the API gives a fallback report.
run_generate_fallback(content, videos, dt) ==
    Result(FALSE, DictSet(context, "updates", generate_updates), stateFile,
           collectedFile, updatesFile,
           append_report(reportsFile, content, "no updates today", dt))

\* A wrong generate: it returns normally without appending anything.
run_generate_no_report(content, videos, dt) ==
    Result(FALSE, DictSet(context, "updates", generate_updates), stateFile,
           collectedFile, updatesFile, reportsFile)

\* Pipeline._run_generate with the one generator DailyReportGenerator.generate.
\* content is what chat_completion returns ("" when it has nothing).
run_generate(content, videos, dt) ==
    LET raw == read_json(updatesFile)
        loaded == IF ctx_updates(context) # <<>> THEN ctx_updates(context)
                  ELSE IF raw = None THEN <<>> ELSE raw[1].updates
        ctx == DictSet(context, "updates", loaded)
    IN  IF loaded = <<>>
        THEN Result(FALSE, ctx, stateFile, collectedFile, updatesFile,
                    append_report(reportsFile, "", "no updates today", dt))
        ELSE IF combined_ids(loaded, videos) = {}
        THEN Result(FALSE, ctx, stateFile, collectedFile, updatesFile,
                    append_report(reportsFile, "", "no valid signals today", dt))
        ELSE IF content = ""
        THEN Result(TRUE, ctx, stateFile, collectedFile, updatesFile, reportsFile)
        ELSE Result(FALSE, ctx, stateFile, collectedFile, updatesFile,
                    append_report(reportsFile, content, "", dt))

(***************************************************************************)
(* core/scheduler.py                                                       *)
(***************************************************************************)
\* A wrong decision: the dependency gate is missing.
should_skip_ungated(file, s, tdy) == get_stage_last_success(file, s) = Some(tdy)

\* A wrong decision: the check of the stage's own marker is missing.
should_skip_no_today(file, s, tdy) ==
    \/ s = "process" /\ get_stage_last_success(file, "collect") # Some(tdy)
    \/ s = "generate" /\ get_stage_last_success(file, "process") # Some(tdy)

\* A wrong decision: the gate accepts a predecessor done on any day.
should_skip_gate_any_day(file, s, tdy) ==
    \/ get_stage_last_success(file, s) = Some(tdy)
    \/ s = "process" /\ get_stage_last_success(file, "collect") = None
    \/ s = "generate" /\ get_stage_last_success(file, "process") = None

\* The normal-mode loop's decision for stage s: skip it when it is done today,
\* or when its predecessor is not.
should_skip(file, s, tdy) ==
    \/ get_stage_last_success(file, s) = Some(tdy)
    \/ s = "process" /\ get_stage_last_success(file, "collect") # Some(tdy)
    \/ s = "generate" /\ get_stage_last_success(file, "process") # Some(tdy)

\* A wrong wrapper: a failed body takes the stage's entry out of state.json.
execute_stage_rollback(stage, res, tdy) ==
    IF res.raised
    THEN LET state == load_state(res.stateFile)
         IN  save_state([k \in DOMAIN state \ {stage} |-> state[k]])
    ELSE set_stage_last_success(res.stateFile, stage, tdy)

\* A wrong wrapper: the marker is written however the body ended.
execute_stage_always(stage, res, tdy) == set_stage_last_success(res.stateFile, stage, tdy)

\* Scheduler._execute_stage around a body that ended as `res`: state.json after it.
execute_stage(stage, res, tdy) ==
    IF res.raised THEN res.stateFile
    ELSE set_stage_last_success(res.stateFile, stage, tdy)

\* A wrong loop: the stages are visited in another order.
NextPc_unordered(s) ==
    IF mode = "forced" THEN "exit"
    ELSE CASE s = "collect" -> "generate"
           [] s = "generate" -> "process"
           [] s = "process" -> "exit"

\* Where Scheduler.run goes after stage s: forced runs end, the loop moves on.
NextPc(s) ==
    IF mode = "forced" THEN "exit"
    ELSE CASE s = "collect" -> "process"
           [] s = "process" -> "generate"
           [] s = "generate" -> "exit"

ReportCount == IF reportsFile = None THEN 0 ELSE Len(reportsFile[1].reports)

(***************************************************************************)
(* The state machine.                                                      *)
(***************************************************************************)
NoCall == [name |-> "none", stage |-> "", input |-> <<>>,
           hashes |-> <<>>, last_run |-> None, at |-> 0]
NoRun == [s \in StageSet |-> "no"]

Init ==
    /\ now = 0
    /\ stateFile = None
    /\ collectedFile = None
    /\ updatesFile = None
    /\ reportsFile = None
    /\ context = EmptyDict
    /\ pc = "idle"
    /\ mode = "normal"
    /\ today = format_date(0)
    /\ ran = NoRun
    /\ dd = NoCall
    /\ hist = None
    /\ okToday = {}

\* Time passes (at any point, also between two stages of a run).
Tick(hours) ==
    /\ now + hours < MaxDays * DayHours
    /\ now' = now + hours
    /\ hist' = IF format_date(now') = format_date(now) THEN hist ELSE None
    /\ okToday' = IF format_date(now') = format_date(now) THEN okToday ELSE {}
    /\ UNCHANGED <<stateFile, collectedFile, updatesFile, reportsFile, context,
                   pc, mode, today, ran, dd>>

\* main() with --stage stage ("" when absent) and --force: a new process, a new
\* Pipeline with an empty context, and the head of Scheduler.run.
Main(stage, force) ==
    /\ pc = "idle"
    /\ ReportCount < MaxReports
    /\ context' = EmptyDict
    /\ today' = format_date(now)
    /\ ran' = NoRun
    /\ IF force /\ stage # ""
       THEN mode' = "forced" /\ pc' = stage
       ELSE /\ mode' = "normal"
            \* line 37: state = self.state_store.load_state(), outside any try
            /\ pc' = IF load_state_raises(stateFile) THEN "raised" ELSE "collect"
    /\ UNCHANGED <<now, stateFile, collectedFile, updatesFile, reportsFile, dd,
                   hist, okToday>>

\* The normal-mode loop skips the stage it is at.
SkipStage ==
    /\ pc \in StageSet
    /\ mode = "normal"
    /\ should_skip(stateFile, pc, today)
    /\ pc' = NextPc(pc)
    /\ UNCHANGED <<now, stateFile, collectedFile, updatesFile, reportsFile, context,
                   mode, today, ran, dd, hist, okToday>>

\* A wrong forced mode: the checks of the normal loop still apply.
Runnable_gated(s) == pc = s /\ ~should_skip(stateFile, s, today)

\* Scheduler.run reaches _execute_stage(s): always when forced, else when the
\* loop does not skip s.
Runnable(s) ==
    /\ pc = s
    /\ mode = "forced" \/ ~should_skip(stateFile, s, today)

\* History: the fingerprint state the first failed process invocation of the
\* current day started from, kept until process succeeds, the collect artifact is
\* rewritten or the day ends.
HistAfter(stage, res) ==
    IF stage = "collect" /\ ~res.raised THEN None
    ELSE IF stage = "process" /\ res.raised /\ hist = None
         THEN Some([hashes |-> processed_items_hash(load_state(stateFile)),
                    last_run |-> get_last_run(stateFile)])
         ELSE hist

\* History: the stages whose body completed, on the current day, in a normal-mode
\* run that started on this day.
OkTodayAfter(stage, res) ==
    IF mode = "normal" /\ ~res.raised /\ today = format_date(now)
    THEN okToday \cup {stage}
    ELSE okToday

\* _execute_stage(stage): the body ran and ended as res.
Exec(stage, res) ==
    /\ context' = res.context
    /\ collectedFile' = res.collectedFile
    /\ updatesFile' = res.updatesFile
    /\ reportsFile' = res.reportsFile
    /\ stateFile' = execute_stage(stage, res, today)
    /\ ran' = [ran EXCEPT ![stage] = IF res.raised THEN "raised" ELSE "ok"]
    /\ pc' = NextPc(stage)
    /\ hist' = HistAfter(stage, res)
    /\ okToday' = OkTodayAfter(stage, res)
    /\ UNCHANGED <<now, mode, today, dd>>

CollectStage ==
    /\ Runnable("collect")
    /\ \E items \in CollectInputs, ok \in BOOLEAN :
          Exec("collect", run_collect(items, ok))

ProcessStage ==
    /\ Runnable("process")
    /\ \E failAt \in 0..(Len(Processors) + 1) :
          Exec("process", run_process(failAt, now))

GenerateStage ==
    /\ Runnable("generate")
    /\ \E content \in ChatResults, videos \in BOOLEAN :
          Exec("generate", run_generate(content, videos, now))

\* Scheduler.run and main() return: the process ends and its memory is gone.
Exit ==
    /\ pc \in {"exit", "raised"}
    /\ pc' = "idle"
    /\ context' = EmptyDict
    /\ mode' = "normal"
    /\ today' = format_date(0)
    /\ ran' = NoRun
    /\ hist' = IF ran["process"] = "ok" THEN None ELSE hist
    /\ UNCHANGED <<now, stateFile, collectedFile, updatesFile, reportsFile, dd, okToday>>

Next ==
    \/ Tick(DayHours)
    \/ \E stage \in StageSet \cup {""}, force \in BOOLEAN : Main(stage, force)
    \/ SkipStage
    \/ CollectStage
    \/ ProcessStage
    \/ GenerateStage
    \/ Exit

Spec == Init /\ [][Next]_vars

(***************************************************************************)
(* The state store and the dedup processor called directly, in any order:  *)
(* DeduplicateProcessor.process on any input list, and                     *)
(* StateStore.set_stage_last_success with the current date.                *)
(***************************************************************************)
DedupCall(inputs) ==
    \E input \in inputs :
        LET r == Deduplicate_process(input, stateFile, now)
        IN  /\ context' = DictSet(EmptyDict, "updates", r.updates)
            /\ stateFile' = r.file
            /\ dd' = [name |-> "dedup", stage |-> "", input |-> input,
                      hashes |-> processed_items_hash(load_state(stateFile)),
                      last_run |-> get_last_run(stateFile), at |-> now]
            /\ UNCHANGED <<now, collectedFile, updatesFile, reportsFile,
                           pc, mode, today, ran, hist, okToday>>

SetStageCall ==
    \E s \in StageSet :
        /\ stateFile' = set_stage_last_success(stateFile, s, format_date(now))
        /\ dd' = [name |-> "set", stage |-> s, input |-> <<>>,
                  hashes |-> <<>>, last_run |-> None, at |-> now]
        /\ UNCHANGED <<now, collectedFile, updatesFile, reportsFile, context,
                       pc, mode, today, ran, hist, okToday>>

\* Longer lists that repeat an id after other items.
DedupLongInputs == {<<U2, U1, U1b>>, <<U1, U2, U1b>>, <<UNoId, U1b, U1>>}

\* Dedup calls alone, on lists that repeat ids and hold items without an id.
NextDedup ==
    \/ Tick(TickHours)
    \/ DedupCall(SeqsUpTo(DedupItems, MaxItems) \cup DedupLongInputs)

SpecDedup == Init /\ [][NextDedup]_vars

\* Dedup calls and stage-marker writes, on lists (here without repeated items)
\* over more ids than the cap holds.
StoreInputs ==
    {s \in SeqsUpTo(StoreItems, MaxItems) : \A i, j \in 1..Len(s) : s[i] = s[j] => i = j}

NextStore == Tick(DayHours) \/ DedupCall(StoreInputs) \/ SetStageCall

SpecStore == Init /\ [][NextStore]_vars

(***************************************************************************)
(* Single stages run alone (main.py --stage s --force), each run as one    *)
(* step: collect and process without failures, generate against every      *)
(* script of the report API.  After a GenerateCall dd.input holds why the  *)
(* script yielded no text, what generate did and what the files held       *)
(* before the call.                                                        *)
(***************************************************************************)
\* A forced run of one stage, from main() to its return, whose body ended as res.
StageCall(stage, res) ==
    /\ pc = "idle"
    /\ stateFile' = execute_stage(stage, res, format_date(now))
    /\ collectedFile' = res.collectedFile
    /\ updatesFile' = res.updatesFile
    /\ reportsFile' = res.reportsFile
    /\ UNCHANGED <<now, context, pc, mode, today, ran, hist, okToday>>

CollectCall ==
    /\ \E items \in CollectInputs : StageCall("collect", run_collect(items, TRUE))
    /\ UNCHANGED dd

ProcessCall ==
    /\ StageCall("process", run_process(0, now))
    /\ UNCHANGED dd

GenerateCall ==
    \E api \in ApiScripts, videos \in BOOLEAN :
        LET content == chat_completion(api)
            r == run_generate(content, videos, now)
        IN  /\ r.reportsFile # None => Len(r.reportsFile[1].reports) <= MaxReports
            /\ StageCall("generate", r)
            /\ dd' = [name |-> "generate", stage |-> "generate",
                      input |-> [cause |-> ApiCause(api), videos |-> videos,
                                 called |-> generate_calls_api(videos),
                                 content |-> content, raised |-> r.raised,
                                 reports |-> reportsFile,
                                 marker |-> get_stage_last_success(stateFile, "generate")],
                      hashes |-> <<>>, last_run |-> None, at |-> now]

NextGenerate == CollectCall \/ ProcessCall \/ GenerateCall

SpecGenerate == Init /\ [][NextGenerate]_vars

(***************************************************************************)
(* Normal runs on a state.json that is lost or damaged between runs.       *)
(***************************************************************************)
DamageState ==
    /\ pc = "idle"
    /\ stateFile' \in (DamagedFiles \cup {None}) \ {stateFile}
    /\ UNCHANGED <<now, collectedFile, updatesFile, reportsFile, context,
                   pc, mode, today, ran, dd, hist, okToday>>

NextLoad ==
    \/ DamageState
    \/ Main("", FALSE)
    \/ SkipStage
    \/ CollectStage
    \/ ProcessStage
    \/ GenerateStage
    \/ Exit

SpecLoad == Init /\ [][NextLoad]_vars

(***************************************************************************)
(* Properties of the dedup processor and the state store (SpecDedup,       *)
(* SpecStore).  After a DedupCall, dd holds what the call was given and    *)
(* what state.json held before it, context holds what it returned.         *)
(***************************************************************************)
Markers(file) == [s \in StageSet |-> get_stage_last_success(file, s)]
StoredHashes == processed_items_hash(load_state(stateFile))
DedupOutput == ctx_updates(context)
NoRepeatedId(updates) ==
    \A i, j \in 1..Len(updates) : ItemId(updates[i]) = ItemId(updates[j]) => i = j

\* The call ran on a date other than that of the last-run timestamp it found.
DedupOnNewDate == dd.last_run = None \/ dd.last_run[1][1] # format_date(dd.at)
\* The fingerprints the call started from, in order: none after a daily reset.
CarriedHashes == IF DedupOnNewDate THEN <<>> ELSE dd.hashes
\* The positions of the input holding the first occurrence of a usable id.
FirstOccurrences ==
    {i \in 1..Len(dd.input) :
        /\ ItemId(dd.input[i]) # ""
        /\ \A j \in 1..(i - 1) : ItemId(dd.input[j]) # ItemId(dd.input[i])}
IsSuffix(s, t) == Len(s) <= Len(t) /\ s = LastN(t, Len(s))

\* C7: after any sequence of dedup calls the stored fingerprint list has at most
\* MAX_PROCESSED_HASHES entries; a call that appends ids leaves the last
\* MAX_PROCESSED_HASHES entries of (the list it carried over, then the new ids),
\* in append order, so what is removed is always the oldest-appended part of
\* (stored list, then new ids).
C7_CapKeepsMostRecent ==
    /\ Len(StoredHashes) <= MAX_PROCESSED_HASHES
    /\ dd.name = "dedup" =>
          LET new == IdsOf(DedupOutput)
          IN  /\ new # <<>> =>
                    /\ StoredHashes = LastN(CarriedHashes \o new, MAX_PROCESSED_HASHES)
                    /\ IsSuffix(StoredHashes, dd.hashes \o new)
              /\ new = <<>> => StoredHashes = dd.hashes

\* A same-day call whose new ids did not fit: the oldest stored entry is gone.
C7_Witness ==
    /\ dd.name = "dedup"
    /\ ~DedupOnNewDate
    /\ Len(dd.hashes) = MAX_PROCESSED_HASHES
    /\ IdsOf(DedupOutput) # <<>>
    /\ Len(IdsOf(DedupOutput)) < MAX_PROCESSED_HASHES
    /\ StoredHashes = LastN(dd.hashes, MAX_PROCESSED_HASHES - Len(IdsOf(DedupOutput)))
                         \o IdsOf(DedupOutput)

\* C8: a dedup call on a date other than that of the stored last-run timestamp
\* keeps every input item whose id is non-empty and did not appear earlier in
\* the same input, whatever the stored fingerprint list held.
C8_NewDateKeepsAll ==
    (dd.name = "dedup" /\ DedupOnNewDate) =>
        \A i \in FirstOccurrences :
            \E n \in 1..Len(DedupOutput) : DedupOutput[n] = dd.input[i]

\* A call on a later date than the stored timestamp kept an item whose id was stored.
C8_Witness ==
    /\ dd.name = "dedup"
    /\ dd.last_run # None
    /\ dd.last_run[1][1] < format_date(dd.at)
    /\ \E i \in FirstOccurrences :
          /\ ItemId(dd.input[i]) \in SeqSet(dd.hashes)
          /\ \E n \in 1..Len(DedupOutput) : DedupOutput[n] = dd.input[i]

\* The positions of the input the dedup walk keeps.
KeptPositions == {i \in FirstOccurrences : ItemId(dd.input[i]) \notin SeqSet(CarriedHashes)}

\* C9: the output of a dedup call is the subsequence of its input, in input
\* order, made of the first occurrence of each id that is not among the
\* carried-over fingerprints; no id occurs twice in it.
C9_OutputIsFirstOccurrences ==
    dd.name = "dedup" =>
        /\ Len(DedupOutput) = Cardinality(KeptPositions)
        /\ \A n \in 1..Len(DedupOutput) :
              \E k \in KeptPositions :
                  /\ Cardinality({j \in KeptPositions : j <= k}) = n
                  /\ DedupOutput[n] = dd.input[k]
        /\ NoRepeatedId(DedupOutput)

\* A call that dropped a later occurrence of an id and an id already stored.
C9_Witness ==
    /\ dd.name = "dedup"
    /\ DedupOutput # <<>>
    /\ \E i \in 1..Len(dd.input) : ItemId(dd.input[i]) \in SeqSet(CarriedHashes)
    /\ \E i \in 1..Len(dd.input) :
          /\ ItemId(dd.input[i]) # ""
          /\ i \notin FirstOccurrences

\* C10: set_stage_last_success(s, date) changes only the last_success entry of
\* s: the other stages' entries, the fingerprint list and the last-run
\* timestamp are what they were before the call.
C10_SetStageFrame ==
    [][dd'.name = "set" =>
          LET before == load_state(stateFile)
              after == load_state(stateFile')
          IN  /\ \A k \in (DOMAIN before \cup DOMAIN after) \ {dd'.stage} :
                    /\ k \in DOMAIN before
                    /\ k \in DOMAIN after
                    /\ after[k] = before[k]
              /\ dd'.stage \in DOMAIN before =>
                    /\ DOMAIN after[dd'.stage] = DOMAIN before[dd'.stage] \cup {"last_success"}
                    /\ \A f \in DOMAIN before[dd'.stage] \ {"last_success"} :
                          after[dd'.stage][f] = before[dd'.stage][f]
              /\ get_stage_last_success(stateFile', dd'.stage) = Some(format_date(dd'.at))
      ]_vars

\* A marker was set in a state file that holds fingerprints, a timestamp and
\* another stage's marker of an earlier day.
C10_Witness ==
    /\ dd.name = "set"
    /\ get_stage_last_success(stateFile, dd.stage) = Some(format_date(dd.at))
    /\ StoredHashes # <<>>
    /\ get_last_run(stateFile) # None
    /\ \E t \in StageSet \ {dd.stage} :
          /\ get_stage_last_success(stateFile, t) # None
          /\ get_stage_last_success(stateFile, t) # Some(format_date(dd.at))

(***************************************************************************)
(* Properties of the scheduler and the pipeline (Spec).  ran tells, for    *)
(* the run in progress, which stage bodies were executed and how they      *)
(* ended; today is the date the run read when it started.                  *)
(***************************************************************************)
MarkerOf(s) == get_stage_last_success(stateFile, s)
\* The step executes the body of stage s.
Executes(s) == pc = s /\ ran[s] = "no" /\ ran'[s] # "no"
\* The dependency gate of the normal loop lets s through.
PredecessorDone(s) ==
    \/ s = "collect"
    \/ s = "process" /\ MarkerOf("collect") = Some(today)
    \/ s = "generate" /\ MarkerOf("process") = Some(today)

\* C1 as stated: a normal-mode run whose collect body was attempted and raised
\* executes neither the process body nor the generate body, whatever markers
\* process and generate hold (also markers left by forced runs of the same day).
C1_CollectFailureSkipsBoth ==
    (mode = "normal" /\ ran["collect"] = "raised") =>
        (ran["process"] = "no" /\ ran["generate"] = "no")

\* C1, amended: a normal-mode run whose collect body was attempted and raised
\* does not execute the process body, and executes the generate body only when
\* process holds the success marker of the run's day (which a forced run of
\* process on that day left).
C1_CollectFailureSkipsUngated ==
    (mode = "normal" /\ ran["collect"] = "raised") =>
        /\ ran["process"] = "no"
        /\ ran["generate"] # "no" => MarkerOf("process") = Some(today)

\* A normal run ended after collect raised, with neither later body executed,
\* although process holds the marker of an earlier day.
C1_Witness ==
    /\ mode = "normal"
    /\ pc = "exit"
    /\ ran = [NoRun EXCEPT !["collect"] = "raised"]
    /\ MarkerOf("process") # None
    /\ MarkerOf("process") # Some(today)

SingleInvocation(h, dt) ==
    LET state == IF h.last_run = None
                 THEN DictSet(EmptyDict, "processed_items_hash", h.hashes)
                 ELSE DictSet(DictSet(EmptyDict, "processed_items_hash", h.hashes),
                              "last_run", h.last_run[1])
        st == run_chain(Processors, Len(Processors),
                        [updates |-> load_collected_updates(collectedFile),
                         file |-> save_state(state)], dt)
    IN  [updatesFile |-> save_updates(st.updates, format_date(dt)),
         hashes |-> processed_items_hash(load_state(st.file))]

\* C3 as stated: when process is invoked again on the day of a failed
\* invocation, with the collect artifact unchanged, and succeeds, the process
\* artifact and the stored fingerprint list are those a single successful
\* invocation would have left.
C3_RetryIdempotent ==
    (ran["process"] = "ok" /\ hist # None /\ updatesFile # None) =>
        LET one == SingleInvocation(hist[1], (updatesFile[1].date - 1) * DayHours)
        IN  /\ updatesFile = one.updatesFile
            /\ StoredHashes = one.hashes

\* C4: a forced run with stage s executes the body of s, whatever marker s and
\* its predecessor hold, exactly once; it executes no other stage; it changes no
\* marker but that of s, and that one only when the body returned normally.
C4_ForcedRunsOnlyItsStage ==
    /\ []((mode = "forced" /\ pc \in StageSet) => Runnable(pc))
    /\ [][(mode = "forced" /\ pc \in StageSet /\ pc' # pc) =>
            /\ Executes(pc)
            /\ pc' = "exit"
            /\ \A t \in StageSet \ {pc} :
                  /\ ran'[t] = "no"
                  /\ get_stage_last_success(stateFile', t) = MarkerOf(t)
            /\ get_stage_last_success(stateFile', pc) # MarkerOf(pc) => ran'[pc] = "ok"
            /\ ran'[pc] = "ok" => get_stage_last_success(stateFile', pc) = Some(today)
       ]_vars
    /\ [][(mode = "forced" /\ pc \notin StageSet) =>
            Markers(stateFile') = Markers(stateFile)]_vars

\* A forced run of process executed the body, which raised, although process
\* held today's marker and collect held none.
C4_Witness ==
    /\ mode = "forced"
    /\ pc = "exit"
    /\ ran = [NoRun EXCEPT !["process"] = "raised"]
    /\ MarkerOf("process") = Some(today)
    /\ MarkerOf("collect") = None

\* C5: a normal-mode run never executes a stage whose marker equals the run's
\* date, so among the normal-mode runs made within one calendar day each stage
\* body completes successfully at most once.
C5_AtMostOncePerDay ==
    /\ [][\A s \in StageSet :
            (mode = "normal" /\ Executes(s)) => MarkerOf(s) # Some(today)]_vars
    /\ [][\A s \in StageSet :
            (mode = "normal" /\ today = format_date(now)
                /\ Executes(s) /\ ran'[s] = "ok") => s \notin okToday]_vars

\* A later normal run of the day went past collect, done in a normal run of
\* that day, without executing it.
C5_Witness ==
    /\ mode = "normal"
    /\ today = format_date(now)
    /\ pc \in {"process", "generate", "exit"}
    /\ "collect" \in okToday
    /\ ran["collect"] = "no"

\* C6: the process artifact, also the one a successful invocation writes after
\* failed invocations, holds no id more than once.
C6_ArtifactHasNoRepeatedId ==
    updatesFile # None => NoRepeatedId(updatesFile[1].updates)

\* Process succeeded after an invocation of the same day had raised, on a
\* collect artifact that repeats an id, and wrote a non-empty artifact.
C6_Witness ==
    /\ ran["process"] = "ok"
    /\ hist # None
    /\ updatesFile # None
    /\ updatesFile[1].updates # <<>>
    /\ ~NoRepeatedId(load_collected_updates(collectedFile))

\* C11: across any sequence of runs, normal or forced, succeeding or failing, a
\* stage's stored success date, once written, never disappears and never
\* changes to an earlier date.
C11_MarkerNeverRolledBack ==
    [][\A s \in StageSet :
          MarkerOf(s) # None =>
              /\ get_stage_last_success(stateFile', s) # None
              /\ get_stage_last_success(stateFile', s)[1] >= MarkerOf(s)[1]
      ]_vars

\* The process body raised after its dedup call had rewritten state.json: the
\* process marker of an earlier day and today's collect marker are still there.
C11_Witness ==
    /\ ran["process"] = "raised"
    /\ StoredHashes # <<>>
    /\ get_last_run(stateFile) = Some(format_datetime(now))
    /\ MarkerOf("collect") = Some(today)
    /\ MarkerOf("process") # None
    /\ MarkerOf("process")[1] < today

(***************************************************************************)
(* Properties of runs on a lost or damaged state.json (SpecLoad).          *)
(***************************************************************************)
\* C12 as stated: when state.json is missing, unreadable or not a JSON object,
\* loading the state returns the empty state without raising, so every stage
\* reads as not done, and a normal-mode run proceeds instead of aborting.
C12_LoadFailsOpen ==
    /\ Len(stateFile) # 1 =>
          /\ ~load_state_raises(stateFile)
          /\ load_state(stateFile) = EmptyDict
          /\ \A s \in StageSet : get_stage_last_success(stateFile, s) = None
    /\ pc # "raised"

(***************************************************************************)
(* Properties of the generate stage (SpecGenerate).                        *)
(***************************************************************************)
ReportsOf(file) == IF file = None THEN <<>> ELSE file[1].reports
\* The call recorded in dd appended exactly one report, of today, with `content`.
AppendedReport(content) ==
    ReportsOf(reportsFile) =
        Append(ReportsOf(dd.input.reports),
               [date |-> format_date(dd.at), content |-> content])
FallbackTexts == {"no updates today", "no valid signals today"}

\* C13: when the report API is asked and returns no content (no API key, rate
\* limit still hit on the last attempt, an answer without text, or a failed
\* request), the generate stage raises, no report is appended to the reports
\* collection and the generate success marker is what it was.
C13_NoContentRaises ==
    (dd.name = "generate" /\ dd.input.called) =>
        /\ dd.input.cause # "" => dd.input.content = ""
        /\ dd.input.content = "" =>
              /\ dd.input.raised
              /\ reportsFile = dd.input.reports
              /\ MarkerOf("generate") = dd.input.marker

\* The rate limit outlasted every retry of a call made after an earlier call
\* had appended a report and set the marker.
C13_Witness ==
    /\ dd.name = "generate"
    /\ dd.input.called
    /\ dd.input.cause = "rate limit exhausted"
    /\ dd.input.raised
    /\ dd.input.marker # None
    /\ ReportsOf(reportsFile) # <<>>

\* C14 as stated: whenever the generate success marker is written, a report
\* carrying content returned by the report API was appended in that
\* invocation; an empty final item list does not lead to a recorded success.
C14_SuccessCarriesApiContent ==
    (dd.name = "generate" /\ ~dd.input.raised) =>
        /\ dd.input.called
        /\ dd.input.content # ""
        /\ AppendedReport(dd.input.content)

\* C14, amended: whenever the generate success marker is written, exactly one
\* report was appended in that invocation: with the content the report API
\* returned when the API was asked, and with the fixed fallback text when the
\* final item list (or the combined signal list) was empty; when the API was
\* asked and returned nothing, no success is recorded.
C14_SuccessAppendsOneReport ==
    dd.name = "generate" =>
        /\ ~dd.input.raised =>
              /\ MarkerOf("generate") = Some(format_date(dd.at))
              /\ IF dd.input.called
                 THEN dd.input.content # "" /\ AppendedReport(dd.input.content)
                 ELSE \E text \in FallbackTexts : AppendedReport(text)
        /\ (dd.input.called /\ dd.input.content = "") => dd.input.raised

\* The API returned text for a non-empty item list: the report carries it and
\* the marker is set.
C14_Witness ==
    /\ dd.name = "generate"
    /\ ~dd.input.raised
    /\ dd.input.called
    /\ dd.input.cause = ""
    /\ AppendedReport("report text")
    /\ MarkerOf("generate") = Some(format_date(dd.at))

(***************************************************************************)
(* Properties of failing stage bodies (Spec).                              *)
(***************************************************************************)
\* The artifact a stage persists.
ArtifactOf(s, cf, uf, rf) ==
    CASE s = "collect" -> cf
      [] s = "process" -> uf
      [] s = "generate" -> rf

\* What the process body starts from.
ProcessInput ==
    IF ctx_updates(context) = <<>> THEN load_collected_updates(collectedFile)
    ELSE ctx_updates(context)

\* The process body in which the failAt-th contributor raises: the later
\* processors leave no trace (no dedup state and the list as loaded when the
\* first raises, the unscored dedup output when the second raises, the
\* unfiltered scored list when the third raises).
LaterProcessorsNotRun ==
    pc = "process" =>
        \A failAt \in 1..Len(Processors) :
            LET r == run_process(failAt, now)
            IN  /\ r.raised
                /\ failAt = 1 =>
                      /\ r.stateFile = stateFile
                      /\ ctx_updates(r.context) = ProcessInput
                /\ failAt = 2 =>
                      /\ ctx_updates(r.context) =
                             Deduplicate_process(ProcessInput, stateFile, now).updates
                      /\ r.stateFile =
                             Deduplicate_process(ProcessInput, stateFile, now).file
                /\ failAt = 3 =>
                      ctx_updates(r.context) =
                          ScoringProcessor_process(
                              Deduplicate_process(ProcessInput, stateFile, now).updates,
                              now)

\* C15: when a contributor of a stage raises, the stage ends there: no later
\* contributor of the stage runs, the stage's artifact is the one persisted
\* before the invocation, and the stage's success marker is not written.
C15_RaiseAbortsStage ==
    /\ [] LaterProcessorsNotRun
    /\ [][\A s \in StageSet :
             (Executes(s) /\ ran'[s] = "raised") =>
                 /\ ArtifactOf(s, collectedFile', updatesFile', reportsFile') =
                        ArtifactOf(s, collectedFile, updatesFile, reportsFile)
                 /\ get_stage_last_success(stateFile', s) = MarkerOf(s)
       ]_vars

\* The process body raised on a day after the one whose run wrote updates.json
\* and the process marker: both are still those of the earlier day.
C15_Witness ==
    /\ ran["process"] = "raised"
    /\ updatesFile # None
    /\ MarkerOf("process") # None
    /\ MarkerOf("process") # Some(today)
    /\ updatesFile[1].date # today

(***************************************************************************)
(* Properties of the full daily cycle (Spec).                              *)
(***************************************************************************)
\* Where the loop of a normal-mode run stands: before stage 1, 2, 3, or done.
StagePos(p) ==
    CASE p = "collect" -> 1
      [] p = "process" -> 2
      [] p = "generate" -> 3
      [] OTHER -> 4
InNormalRun == mode = "normal" /\ pc \in StageSet \cup {"exit"}
Passed(s) == StagePos(s) < StagePos(pc)

\* The run began with no stage marked done on its date, and every stage the
\* loop has passed was executed and succeeded.  (A stage the loop has not
\* reached still holds the marker it had when the run began; a stage that was
\* marked done when the run began is skipped, so never reads as "ok".)
RunFresh ==
    /\ InNormalRun
    /\ \A s \in StageSet : ~Passed(s) => MarkerOf(s) # Some(today)
    /\ \A s \in StageSet : Passed(s) => ran[s] = "ok"

\* C16: a run started with neither a stage name nor the force flag attempts
\* the stages in the order collect, process, generate, each at most once; and
\* if no stage is marked done on the run's date and every stage body
\* succeeds, no stage is skipped and all three markers equal that date when
\* the run ends.
C16_NormalRunInOrder ==
    /\ [](InNormalRun =>
              /\ \A s \in StageSet : ~Passed(s) => ran[s] = "no"
              /\ (RunFresh /\ pc = "exit") =>
                    \A s \in StageSet : MarkerOf(s) = Some(today))
    /\ [][(InNormalRun /\ pc' # pc /\ pc # "exit") =>
             /\ StagePos(pc') = StagePos(pc) + 1
             /\ \A s \in StageSet \ {pc} : ran'[s] = ran[s]
             /\ RunFresh =>
                   /\ ran'[pc] # "no"
                   /\ ran'[pc] = "ok" =>
                         get_stage_last_success(stateFile', pc) = Some(today)
       ]_vars
    /\ [][(mode' = "normal" /\ pc = "idle" /\ pc' # "idle") =>
             (pc' = "collect" /\ \A s \in StageSet : ran'[s] = "no")]_vars

\* A normal run on the second day: the markers were those of the first day when
\* it began, all three bodies succeeded, and the run is at its end.
C16_Witness ==
    /\ RunFresh
    /\ pc = "exit"
    /\ today > 0
    /\ \A s \in StageSet : MarkerOf(s) = Some(today)

(***************************************************************************)
(* The filtering processor called alone: FilteringProcessor(config).process *)
(* on a list of scored items, under a configuration and at a time that the *)
(* initial state draws.  dd holds the list and config["limits"].           *)
(***************************************************************************)
FilterItem(id, source, url, tags, published_at, score) ==
    [kind |-> "dict", id |-> id, title |-> "", source |-> source, url |-> url,
     tags |-> tags, published_at |-> published_at, score |-> score]

\* Scored items of every bucket: two bucket-A items and a bucket-B item share a
\* score; dates are of the first day, of the second day, missing or unparseable.
F1 == FilterItem("f1", "arXiv", "https://arxiv.org/abs/1", {}, Some(0), 9)
F2 == FilterItem("f2", "rss", "https://example.com/p", {"Blog"}, None, 5)
F3 == FilterItem("f3", "GitHub Trending", "https://github.com/o/r", {"trending"},
                 BadDate, 5)
F4 == FilterItem("f4", "rss", "https://github.com/o/r", {"research"}, Some(0), 7)
F5 == FilterItem("f5", "hackernews", "https://example.com/p", {}, Some(30), 9)
F6 == FilterItem("f6", "arxiv", "https://example.com/p", {}, Some(0), 5)
FilterItems == {F1, F2, F3, F4, F5, F6}
FilterInputs == SeqsUpTo(FilterItems, MaxFilterLen)

Limits(n, window, q_ar, q_gh) ==
    [top_n |-> n, days_window |-> window, quota_arxiv_rss |-> q_ar,
     quota_github |-> q_gh]
FilterLimits ==
    {Limits(1, 1, None, None), Limits(2, 1, None, None), Limits(2, 0, None, None),
     Limits(2, 1, Some(1), None), Limits(1, 1, None, Some(1)),
     Limits(2, 1, Some(1), Some(1)), Limits(1, 1, Some(2), Some(1)),
     Limits(2, 0, Some(0), Some(-1))}

InitFilter ==
    /\ now \in {d * DayHours : d \in 0..MaxDays}
    /\ stateFile = None
    /\ collectedFile = None
    /\ updatesFile = None
    /\ reportsFile = None
    /\ pc = "idle"
    /\ mode = "normal"
    /\ today = format_date(now)
    /\ ran = NoRun
    /\ hist = None
    /\ okToday = {}
    /\ \E updates \in FilterInputs, limits \in FilterLimits :
          /\ context = DictSet(EmptyDict, "updates", updates)
          /\ dd = [name |-> "filter", stage |-> "",
                   input |-> [updates |-> updates, limits |-> limits],
                   hashes |-> <<>>, last_run |-> None, at |-> now]

FilterCall ==
    /\ pc = "idle"
    /\ dd.name = "filter"
    /\ context' = DictSet(context, "updates",
                          filter_process(ctx_updates(context), now, dd.input.limits))
    /\ pc' = "exit"
    /\ UNCHANGED <<now, stateFile, collectedFile, updatesFile, reportsFile,
                   mode, today, ran, dd, hist, okToday>>

NextFilter == FilterCall
SpecFilter == InitFilter /\ [][NextFilter]_vars

(***************************************************************************)
(* Properties of the filtering processor (SpecFilter).  After FilterCall,  *)
(* dd.input holds the list and the limits given, context the output.       *)
(***************************************************************************)
FilterDone == dd.name = "filter" /\ pc = "exit"
FilterIn == dd.input.updates
FilterOut == ctx_updates(context)
QuotaMode ==
    dd.input.limits.quota_arxiv_rss # None /\ dd.input.limits.quota_github # None
QuotaA == IF dd.input.limits.quota_arxiv_rss[1] > 0
          THEN dd.input.limits.quota_arxiv_rss[1] ELSE 0
QuotaB == IF dd.input.limits.quota_github[1] > 0
          THEN dd.input.limits.quota_github[1] ELSE 0

\* The item's publish date is missing, unparseable, or at most days_window days
\* before the day of the call.
InsideDayWindow(u) ==
    \/ u.published_at = None
    \/ Len(u.published_at) = 2
    \/ (now \div DayHours) - (u.published_at[1] \div DayHours)
           <= dd.input.limits.days_window
Remaining == SelectSeq(FilterIn, InsideDayWindow)

IsBucketA(u) == source_bucket(u) = "arxiv_rss"
IsBucketB(u) == source_bucket(u) = "github"
IsOther(u) == source_bucket(u) = "other"

SortedDesc(s) == \A i \in 1..(Len(s) - 1) : s[i].score >= s[i + 1].score

\* The place of pool[p] when pool is ordered by score descending, equal scores
\* in pool order.
Rank(pool, p) ==
    1 + Cardinality({q \in 1..Len(pool) :
                        \/ pool[q].score > pool[p].score
                        \/ pool[q].score = pool[p].score /\ q < p})

\* out is the n highest-scored items of pool (all of them when pool has fewer),
\* highest first.
IsTopOf(out, pool, n) ==
    /\ Len(out) = (IF Len(pool) <= n THEN Len(pool) ELSE n)
    /\ \A p \in 1..Len(pool) : Rank(pool, p) <= n => out[Rank(pool, p)] = pool[p]

\* C19: unless both quotas are configured, the filter works in simple top-N
\* mode: an item whose publish date is more than days_window days before the
\* day of the call is dropped, an item with a missing or unparseable date is
\* kept, and the output is the first top_n of the remaining items ordered by
\* score descending (at most top_n items).
C19_SimpleTopN ==
    (FilterDone /\ ~QuotaMode) =>
        /\ IsTopOf(FilterOut, Remaining, dd.input.limits.top_n)
        /\ SortedDesc(FilterOut)
        /\ Len(FilterOut) <= dd.input.limits.top_n

\* One quota alone is configured; of four items one is too old and dropped,
\* one undated and one with an unparseable date are kept, and top_n cuts the
\* list.
C19_Witness ==
    /\ FilterDone
    /\ dd.input.limits.quota_arxiv_rss # None
    /\ ~QuotaMode
    /\ Len(Remaining) < Len(FilterIn)
    /\ Len(FilterOut) < Len(Remaining)
    /\ \E i \in 1..Len(FilterOut) : FilterOut[i].published_at = None
    /\ \E i \in 1..Len(FilterOut) : Len(FilterOut[i].published_at) = 2

\* C17: in quota mode, when bucket A (arxiv_rss) and bucket B (github) each
\* hold at least their quota of items inside the day window, the output is
\* exactly the quota-A highest-scored bucket-A items and the quota-B
\* highest-scored bucket-B items, ordered by score descending, with no
\* item classified as 'other'.
C17_QuotaSelection ==
    (/\ FilterDone
     /\ QuotaMode
     /\ Len(SelectSeq(Remaining, IsBucketA)) >= QuotaA
     /\ Len(SelectSeq(Remaining, IsBucketB)) >= QuotaB) =>
        /\ Len(FilterOut) = QuotaA + QuotaB
        /\ Len(SelectSeq(FilterOut, IsBucketA)) = QuotaA
        /\ IsTopOf(SelectSeq(FilterOut, IsBucketA),
                   SelectSeq(Remaining, IsBucketA), QuotaA)
        /\ Len(SelectSeq(FilterOut, IsBucketB)) = QuotaB
        /\ IsTopOf(SelectSeq(FilterOut, IsBucketB),
                   SelectSeq(Remaining, IsBucketB), QuotaB)
        /\ SelectSeq(FilterOut, IsOther) = <<>>
        /\ SortedDesc(FilterOut)

\* Quotas (1, 1) on a list with two bucket-A items, a bucket-B item and an
\* 'other' item that outscores the bucket-B item, all inside the day window:
\* the lower bucket-A item and the 'other' item are left out.
C17_Witness ==
    /\ FilterDone
    /\ QuotaMode
    /\ QuotaA = 1
    /\ QuotaB = 1
    /\ Len(SelectSeq(Remaining, IsBucketA)) = 2
    /\ Len(SelectSeq(Remaining, IsBucketB)) = 1
    /\ \E i \in 1..Len(Remaining) :
          IsOther(Remaining[i]) /\ Remaining[i].score > FilterOut[2].score
    /\ Len(FilterOut) = 2
    /\ FilterOut[1].score > FilterOut[2].score

\* C18: in both modes, two items of the output with equal scores stand in the
\* order in which they stood in the input list.
C18_TiesKeepInputOrder ==
    FilterDone =>
        \A i, j \in 1..Len(FilterOut) :
            (i < j /\ FilterOut[i].score = FilterOut[j].score) =>
                \E p, q \in 1..Len(FilterIn) :
                    p < q /\ FilterIn[p] = FilterOut[i] /\ FilterIn[q] = FilterOut[j]

(***************************************************************************)
(* The scoring processor called alone on a pair of items that differ in    *)
(* stars_today only (the second has none), under weights and at a time     *)
(* that the initial state draws.  dd holds the pair and config["scoring"]. *)
(***************************************************************************)
StarsValues == {None, Some(-1), Some(0), Some(1), Some(50), Some(300), Some(999),
                Some(1000), Some(1001), Some(5000)}
ScoreItems ==
    {Update("s1", title, "github", pub, stars) :
        title \in {"AI agent", "paper"},
        pub \in {None, BadDate, Some(0), Some(20), Some(36)},
        stars \in StarsValues}
WithoutStars(u) == [u EXCEPT !["stars_today"] = None]
\* The pair as objects, or as the dicts an artifact holds.
ScoreInput(u, asDict) ==
    IF asDict THEN <<payload_to_dict(u), payload_to_dict(WithoutStars(u))>>
    ELSE <<u, WithoutStars(u)>>
ScoringConfigs ==
    {Scoring(kw, tw, rw) : kw \in {0, 1}, tw \in {0, 1, 2, 3}, rw \in {0, 1}}

InitScore ==
    /\ now \in {d * DayHours : d \in 0..MaxDays}
    /\ stateFile = None
    /\ collectedFile = None
    /\ updatesFile = None
    /\ reportsFile = None
    /\ pc = "idle"
    /\ mode = "normal"
    /\ today = format_date(now)
    /\ ran = NoRun
    /\ hist = None
    /\ okToday = {}
    /\ \E u \in ScoreItems, asDict \in BOOLEAN, scoring \in ScoringConfigs :
          /\ context = DictSet(EmptyDict, "updates", ScoreInput(u, asDict))
          /\ dd = [name |-> "score", stage |-> "",
                   input |-> [updates |-> ScoreInput(u, asDict), scoring |-> scoring],
                   hashes |-> <<>>, last_run |-> None, at |-> now]

ScoreCall ==
    /\ pc = "idle"
    /\ dd.name = "score"
    /\ context' = DictSet(context, "updates",
                          score_process(ctx_updates(context), now, dd.input.scoring))
    /\ pc' = "exit"
    /\ UNCHANGED <<now, stateFile, collectedFile, updatesFile, reportsFile,
                   mode, today, ran, dd, hist, okToday>>

NextScore == ScoreCall
SpecScore == InitScore /\ [][NextScore]_vars

(***************************************************************************)
(* Properties of the scoring processor (SpecScore).  Scores are in units   *)
(* of 1/ScoreUnit.                                                         *)
(***************************************************************************)
ScoreDone == dd.name = "score" /\ pc = "exit"
\* The trend metric of the scored item: present when the attribute is not None
\* (an object) or the key exists (a dict).
TrendMetric ==
    LET u == dd.input.updates[1]
    IN  IF "stars_today" \notin DOMAIN u THEN None
        ELSE IF u.kind = "dict" THEN Some(u.stars_today)
        ELSE u.stars_today
\* What stars_today added to the item's score.
TrendingPart == ctx_updates(context)[1].score - ctx_updates(context)[2].score

RecencyAlone ==
    \/ dd.input.scoring.keyword_weight = 0
    \/ \A i \in 1..Len(Keywords) : ~InTitle(Keywords[i], dd.input.updates[2].title)
RecencyPart == ctx_updates(context)[2].score
\* Hours from the item's publish timestamp to the time of the call.
HoursBefore == now - dd.input.updates[2].published_at[1]

\* C21: for an item whose publish timestamp parses and lies h hours before
\* now, the recency score is max(0, (24 - h) / 24 x 10) x recency_weight: 10 x
\* recency_weight at h = 0 and 0 for every h >= 24; for an item whose timestamp
\* is missing or unparseable it is 5 x recency_weight.
C21_RecencyScore ==
    (ScoreDone /\ RecencyAlone) =>
        LET w == dd.input.scoring.recency_weight
        IN  IF Len(dd.input.updates[2].published_at) = 1
            THEN /\ HoursBefore >= 24 => RecencyPart = 0
                 /\ HoursBefore <= 24 =>
                       RecencyPart * 24 = (24 - HoursBefore) * 10 * w * ScoreUnit
                 /\ HoursBefore = 0 => RecencyPart = 10 * w * ScoreUnit
            ELSE RecencyPart = 5 * w * ScoreUnit

\* An item published four hours before the call, scored under recency weight
\* 1: its recency score is 20/24 of 10.
C21_Witness ==
    /\ ScoreDone
    /\ RecencyAlone
    /\ dd.input.scoring.recency_weight = 1
    /\ Len(dd.input.updates[2].published_at) = 1
    /\ HoursBefore = 4
    /\ RecencyPart * 24 = 20 * 10 * ScoreUnit

\* C22: the scoring processor changes only the score field of the items: the
\* working list holds the same items in the same order as before, none added,
\* dropped or reordered, no other field changed.
C22_ScoringChangesScoreOnly ==
    ScoreDone =>
        /\ Len(ctx_updates(context)) = Len(dd.input.updates)
        /\ \A i \in 1..Len(dd.input.updates) :
              /\ DOMAIN ctx_updates(context)[i] = DOMAIN dd.input.updates[i]
              /\ \A k \in DOMAIN dd.input.updates[i] \ {"score"} :
                    ctx_updates(context)[i][k] = dd.input.updates[i][k]

\* Both items of the pair got a new score, the first the higher one, and the
\* list is otherwise what it was.
C22_Witness ==
    /\ ScoreDone
    /\ ctx_updates(context)[1].score > ctx_updates(context)[2].score
    /\ ctx_updates(context)[2].score > dd.input.updates[2].score
    /\ ctx_updates(context)[1].id = dd.input.updates[1].id
    /\ "stars_today" \in DOMAIN ctx_updates(context)[1]

(***************************************************************************)
(* One call of chat_completion, request by request.  dd holds whether a    *)
(* key is set, the loop variable, the answers received so far, the waits   *)
(* slept so far and the value returned; pc is where the call stands.       *)
(* An answer is a rate-limit status, another error status, an exception    *)
(* of requests.post or r.json, or a 200 with text, blank text or no        *)
(* choices.                                                                *)
(***************************************************************************)
LLM_RETRY_BASE_SECONDS == 5
RateLimited == {"429", "503"}
Answers == RateLimited \cup {"401", "500", "exception", "text", "blank", "no choices"}

RECURSIVE Pow2(_)
Pow2(n) == IF n = 0 THEN 1 ELSE 2 * Pow2(n - 1)

\* A wrong backoff: the wait grows by the base each time.
wait_sec_linear(attempt) == LLM_RETRY_BASE_SECONDS * (attempt + 1)

\* wait_sec = LLM_RETRY_BASE_SECONDS * (2 ** attempt)
wait_sec(attempt) == LLM_RETRY_BASE_SECONDS * Pow2(attempt)

ChatState(key, attempt, answers, waits, result) ==
    [name |-> "chat", stage |-> "",
     input |-> [key |-> key, attempt |-> attempt, answers |-> answers,
                waits |-> waits, result |-> result],
     hashes |-> <<>>, last_run |-> None, at |-> 0]

InitChat ==
    /\ now = 0
    /\ stateFile = None
    /\ collectedFile = None
    /\ updatesFile = None
    /\ reportsFile = None
    /\ context = EmptyDict
    /\ pc = "idle"
    /\ mode = "normal"
    /\ today = format_date(now)
    /\ ran = NoRun
    /\ hist = None
    /\ okToday = {}
    /\ \E key \in BOOLEAN : dd = ChatState(key, 0, <<>>, <<>>, None)

ChatFrame == UNCHANGED <<now, stateFile, collectedFile, updatesFile, reportsFile,
                         context, mode, today, ran, hist, okToday>>

\* Lines 43-63: without a key the call returns "" at once.
ChatStart ==
    /\ pc = "idle"
    /\ dd.name = "chat"
    /\ IF dd.input.key
       THEN pc' = "request" /\ dd' = dd
       ELSE pc' = "exit" /\ dd' = [dd EXCEPT !.input.result = Some("")]
    /\ ChatFrame

\* Lines 64-95: one pass of the loop body up to its return, break or sleep.
ChatRequest ==
    /\ pc = "request"
    /\ dd.input.attempt <= LLM_RETRY_COUNT
    /\ \E answer \in Answers :
          LET answers == Append(dd.input.answers, answer)
              Return(text) ==
                  /\ pc' = "exit"
                  /\ dd' = [dd EXCEPT !.input.answers = answers,
                                      !.input.result = Some(text)]
          IN  IF answer \in RateLimited /\ dd.input.attempt < LLM_RETRY_COUNT
              THEN /\ pc' = "sleep"
                   /\ dd' = [dd EXCEPT !.input.answers = answers]
              ELSE IF answer = "text" THEN Return("report text")
              ELSE Return("")
    /\ ChatFrame

\* time.sleep(wait_sec); continue
ChatSleep ==
    /\ pc = "sleep"
    /\ pc' = "request"
    /\ dd' = [dd EXCEPT !.input.waits = Append(@, wait_sec(dd.input.attempt)),
                        !.input.attempt = @ + 1]
    /\ ChatFrame

NextChat == ChatStart \/ ChatRequest \/ ChatSleep
\* requests.post has a timeout and time.sleep returns: the call keeps running.
SpecChat == InitChat /\ [][NextChat]_vars /\ WF_vars(NextChat)

(***************************************************************************)
(* Properties of one report-API call (SpecChat).                           *)
(***************************************************************************)
ChatRequests == Len(dd.input.answers)

\* C23: one call issues at most LLM_RETRY_COUNT + 1 requests; every request
\* after the first follows a 429 or 503 answer and a wait of
\* LLM_RETRY_BASE_SECONDS x 2^attempt (so each wait is twice the one before);
\* when the attempts are used up, or on any other error, the call returns no
\* content; and the call always returns.
C23_BoundedRetries ==
    /\ [](dd.name = "chat" =>
            /\ ChatRequests <= LLM_RETRY_COUNT + 1
            /\ \A k \in 1..(ChatRequests - 1) : dd.input.answers[k] \in RateLimited
            /\ pc = "request" => Len(dd.input.waits) = ChatRequests
            /\ Len(dd.input.waits) <= ChatRequests
            /\ \A k \in 1..Len(dd.input.waits) :
                  /\ dd.input.waits[k] = LLM_RETRY_BASE_SECONDS * Pow2(k - 1)
                  /\ k > 1 => dd.input.waits[k] = 2 * dd.input.waits[k - 1]
            /\ pc = "exit" =>
                  /\ dd.input.result # None
                  /\ (\/ ~dd.input.key
                      \/ dd.input.answers[ChatRequests] # "text") =>
                         dd.input.result = Some(""))
    /\ <>(pc = "exit")

\* The call was answered 429 or 503 on every one of its four requests: it
\* waited 5, 10 and 20 seconds and returned no content.
C23_Witness ==
    /\ dd.name = "chat"
    /\ pc = "exit"
    /\ ChatRequests = LLM_RETRY_COUNT + 1
    /\ dd.input.answers[ChatRequests] \in RateLimited
    /\ dd.input.waits = <<5, 10, 20>>
    /\ dd.input.result = Some("")

(***************************************************************************)
(* The collect stage body called on one Pipeline object, once or several   *)
(* times, each time under a configuration of collectors.  dd holds the     *)
(* configuration, the order in which the collectors were called, and       *)
(* whether the call found items in the working list.                       *)
(***************************************************************************)
CollectorKinds == {SignalCollector, ContentCollector(<<>>), ContentCollector(<<U1>>),
                   ContentCollector(<<U2, U1>>)}
CollectorConfigs == SeqsUpTo(CollectorKinds, MaxCollectors)

CollectRun ==
    /\ pc = "idle"
    /\ \E collectors \in CollectorConfigs :
          LET order == collect_order(collectors)
              r == run_collect(collect_calls(collectors, order, <<>>), TRUE)
          IN  /\ context' = r.context
              /\ collectedFile' = r.collectedFile
              /\ dd' = [name |-> "collect", stage |-> "collect",
                        input |-> [collectors |-> collectors, order |-> order,
                                   found |-> Len(ctx_updates(context)) > 0],
                        hashes |-> <<>>, last_run |-> None, at |-> now]
    /\ UNCHANGED <<now, stateFile, updatesFile, reportsFile, pc, mode, today, ran,
                   hist, okToday>>

NextCollect == CollectRun
SpecCollect == Init /\ [][NextCollect]_vars

(***************************************************************************)
(* Properties of the collect stage body (SpecCollect).                     *)
(***************************************************************************)
RECURSIVE Appended(_)
\* What the content collectors of a configuration append, in configuration order.
Appended(collectors) ==
    IF collectors = <<>> THEN <<>>
    ELSE (IF Head(collectors).role = "content" THEN Head(collectors).items ELSE <<>>)
             \o Appended(Tail(collectors))

\* C24: every invocation of the collect stage starts from an empty working
\* list, calls every signal-only collector before any content collector, and
\* on normal completion persists as the collect artifact exactly the items
\* appended during that invocation, in the order appended; no item of an
\* earlier invocation is carried into it.
C24_CollectStartsEmpty ==
    dd.name = "collect" =>
        /\ SeqSet(dd.input.order) = 1..Len(dd.input.collectors)
        /\ Len(dd.input.order) = Len(dd.input.collectors)
        /\ \A i, j \in 1..Len(dd.input.order) :
              (dd.input.collectors[dd.input.order[i]].role = "content"
                   /\ dd.input.collectors[dd.input.order[j]].role = "signal") => j < i
        /\ ctx_updates(context) = Appended(dd.input.collectors)
        /\ collectedFile # None
        /\ collectedFile[1].updates =
               [i \in 1..Len(Appended(dd.input.collectors)) |->
                   to_dict(Appended(dd.input.collectors)[i])]

\* A second invocation on a Pipeline whose working list held items: a content
\* collector is configured before a signal collector, and the artifact holds
\* this invocation's items only.
C24_Witness ==
    /\ dd.name = "collect"
    /\ dd.input.found
    /\ Len(dd.input.collectors) = 3
    /\ dd.input.collectors[1].role = "content"
    /\ dd.input.collectors[2].role = "signal"
    /\ dd.input.order[1] = 2
    /\ Len(collectedFile[1].updates) = 3

(***************************************************************************)
(* Properties of the process stage body (Spec).                            *)
(***************************************************************************)
\* The working list after the configured chain (deduplicate, scoring,
\* filtering) ran on `input`, each processor on the list the one before left.
ChainOutput(input) ==
    filter_process(
        score_process(Deduplicate_process(input, stateFile, now).updates, now,
                      DefaultScoring),
        now, DefaultLimits)

\* C25: the process stage takes its input from the collect artifact when its
\* working list is empty, applies the configured processors in their order,
\* each on the list the previous one left, and on normal completion the
\* process artifact holds exactly the final working list.
C25_ProcessChain ==
    [][(Executes("process") /\ ran'["process"] = "ok") =>
          LET input == IF ctx_updates(context) = <<>>
                       THEN (IF collectedFile = None THEN <<>>
                             ELSE collectedFile[1].updates)
                       ELSE ctx_updates(context)
          IN  /\ ctx_updates(context') = ChainOutput(input)
              /\ updatesFile' # None
              /\ updatesFile'[1].updates =
                     [i \in 1..Len(ctx_updates(context')) |->
                         payload_to_dict(ctx_updates(context')[i])]
              /\ updatesFile'[1].date = format_date(now)
      ]_vars

\* A standalone replay (forced process in a new process): the list came from
\* collected_updates.json, two items passed the chain and are in updates.json
\* with their scores, best first.
C25_Witness ==
    /\ mode = "forced"
    /\ ran["process"] = "ok"
    /\ ran["collect"] = "no"
    /\ updatesFile # None
    /\ Len(updatesFile[1].updates) = 2
    /\ updatesFile[1].updates = ctx_updates(context)
    /\ updatesFile[1].updates[1].score > updatesFile[1].updates[2].score
    /\ updatesFile[1].updates[2].score > 0

\* ---------------------------------------------------------------------------
\* Trending history (collectors/github_trending.py) and the trend analyzer
\* (processor/trend_analyzer.py), called directly.  trending_history.json is
\* held in dd.input.file; a category total is a record [name, score] so that
\* the sorts of the analyzer are the stable sort modelled above.

history_days == 30
TrendWindowDays == 14
TopTopics == 5

TrendItem(language, stars) == [language |-> language, stars_today |-> stars]
TrendEntry(date, items) == [date |-> date, items |-> items]

\* Lines 105-123 of the collector, run on day `date` with the scraped items:
\* nothing is written without items; otherwise the day's entry goes to the
\* FRONT of the kept history, entries of the same date are dropped and the
\* list is cut to its first history_days entries.
trending_history_after(file, date, items) ==
    IF items = <<>> THEN file
    ELSE LET history  == IF file = None THEN <<>> ELSE file[1].history
             filtered == SelectSeq(history, LAMBDA h : h.date # date)
             inserted == <<TrendEntry(date, items)>> \o filtered
         IN  write_json([history |->
                IF history_days > 0 THEN FirstN(inserted, history_days)
                ELSE inserted])

\* TrendAnalyzerProcessor._load_history
load_history(file) == IF file = None THEN <<>> ELSE file[1].history

\* str(it.get("language") or "").strip() or "Unknown"
trend_language(it) ==
    IF it.language \in {"", " "} THEN "Unknown" ELSE it.language

RECURSIVE FlatItems(_)
FlatItems(days) ==
    IF days = <<>> THEN <<>> ELSE Head(days).items \o FlatItems(Tail(days))

RECURSIVE AddTotal(_, _, _)
\* agg[lang] = agg.get(lang, 0.0) + val, keys kept in insertion order.
AddTotal(agg, lang, val) ==
    IF agg = <<>> THEN <<[name |-> lang, score |-> val]>>
    ELSE IF Head(agg).name = lang
         THEN <<[Head(agg) EXCEPT !.score = @ + val]>> \o Tail(agg)
         ELSE <<Head(agg)>> \o AddTotal(Tail(agg), lang, val)

RECURSIVE AggregateItems(_, _)
AggregateItems(agg, items) ==
    IF items = <<>> THEN agg
    ELSE AggregateItems(AddTotal(agg, trend_language(Head(items)),
                                 Head(items).stars_today), Tail(items))

\* TrendAnalyzerProcessor._aggregate_by_language
aggregate_by_language(days) == AggregateItems(<<>>, FlatItems(days))

\* agg.get(lang, 0.0)
TotalOf(agg, lang) ==
    IF \E i \in 1..Len(agg) : agg[i].name = lang
    THEN agg[CHOOSE i \in 1..Len(agg) : agg[i].name = lang].score
    ELSE 0

AggKeys(agg) == {agg[i].name : i \in 1..Len(agg)}
TopicNames(pairs) == [i \in 1..Len(pairs) |-> pairs[i].name]

\* Lines 38, 50-52.
trend_days(history) == LastN(history, TrendWindowDays)
prev_days(days) == SubSeq(days, 1, Len(days) \div 2)
curr_days(days) == SubSeq(days, Len(days) \div 2 + 1, Len(days))

\* Lines 54-61.  `order` is the order in which the set of the two key sets is
\* walked, which the language leaves open.
trend_deltas(days, order) ==
    LET prev_lang == aggregate_by_language(prev_days(days))
        curr_lang == aggregate_by_language(curr_days(days))
    IN  [i \in 1..Len(order) |->
            [name |-> order[i],
             score |-> TotalOf(curr_lang, order[i]) - TotalOf(prev_lang, order[i])]]

TrendKeys(days) ==
    AggKeys(aggregate_by_language(prev_days(days)))
        \cup AggKeys(aggregate_by_language(curr_days(days)))

RECURSIVE Orders(_)
\* The sequences that list every member of S once.
Orders(S) ==
    IF S = {} THEN {<<>>}
    ELSE UNION {{<<x>> \o o : o \in Orders(S \ {x})} : x \in S}

\* falling.sort(key=delta): stable and ascending.
SortByScoreAsc(s) ==
    LET neg(p) == [p EXCEPT !.score = 0 - @]
        flip(q) == [i \in 1..Len(q) |-> neg(q[i])]
    IN  flip(SortByScoreDesc(flip(s)))

\* A wrong short-history report: the first five categories met, unsorted.
trend_stats_first_seen(file, order) ==
    LET history == load_history(file)
        days    == trend_days(history)
    IN  IF history = <<>> THEN EmptyDict
        ELSE IF Len(days) < 2
        THEN [rising_topics  |-> FirstN(TopicNames(aggregate_by_language(days)), TopTopics),
              falling_topics |-> <<>>,
              stable_topics  |-> <<>>]
        ELSE LET deltas  == trend_deltas(days, order)
                 rising  == SortByScoreDesc(SelectSeq(deltas, LAMBDA p : p.score > 0))
                 falling == SortByScoreAsc(SelectSeq(deltas, LAMBDA p : p.score < 0))
                 stable  == SelectSeq(deltas, LAMBDA p : p.score = 0)
             IN  [rising_topics  |-> FirstN(TopicNames(rising), TopTopics),
                  falling_topics |-> FirstN(TopicNames(falling), TopTopics),
                  stable_topics  |-> FirstN(TopicNames(stable), TopTopics)]

\* A wrong report: the lists are cut to five entries before they are sorted.
trend_stats_cut_first(file, order) ==
    LET history == load_history(file)
        days    == trend_days(history)
    IN  IF history = <<>> THEN EmptyDict
        ELSE IF Len(days) < 2
        THEN [rising_topics  |-> FirstN(TopicNames(SortByScoreDesc(
                                            aggregate_by_language(days))), TopTopics),
              falling_topics |-> <<>>,
              stable_topics  |-> <<>>]
        ELSE LET deltas  == trend_deltas(days, order)
                 rising  == SortByScoreDesc(
                                FirstN(SelectSeq(deltas, LAMBDA p : p.score > 0), TopTopics))
                 falling == SortByScoreAsc(
                                FirstN(SelectSeq(deltas, LAMBDA p : p.score < 0), TopTopics))
                 stable  == SelectSeq(deltas, LAMBDA p : p.score = 0)
             IN  [rising_topics  |-> TopicNames(rising),
                  falling_topics |-> TopicNames(falling),
                  stable_topics  |-> FirstN(TopicNames(stable), TopTopics)]

\* TrendAnalyzerProcessor.process: the value written to context["trend_stats"].
trend_stats_of(file, order) ==
    LET history == load_history(file)
        days    == trend_days(history)
    IN  IF history = <<>> THEN EmptyDict
        ELSE IF Len(days) < 2
        THEN [rising_topics  |-> FirstN(TopicNames(SortByScoreDesc(
                                            aggregate_by_language(days))), TopTopics),
              falling_topics |-> <<>>,
              stable_topics  |-> <<>>]
        ELSE LET deltas  == trend_deltas(days, order)
                 rising  == SortByScoreDesc(SelectSeq(deltas, LAMBDA p : p.score > 0))
                 falling == SortByScoreAsc(SelectSeq(deltas, LAMBDA p : p.score < 0))
                 \* stable.sort(key=abs): every key is 0, the order is kept.
                 stable  == SelectSeq(deltas, LAMBDA p : p.score = 0)
             IN  [rising_topics  |-> FirstN(TopicNames(rising), TopTopics),
                  falling_topics |-> FirstN(TopicNames(falling), TopTopics),
                  stable_topics  |-> FirstN(TopicNames(stable), TopTopics)]

\* What the trending page showed on one day.
MaxTrendDays == 3
DayA == <<TrendItem("Python", 1), TrendItem("Rust", 2), TrendItem("Go", 3),
          TrendItem("C", 4), TrendItem("Java", 5), TrendItem("", 6)>>
DayB == <<TrendItem("Python", 7), TrendItem("Rust", 7), TrendItem("Go", 7),
          TrendItem("C", 7), TrendItem("Java", 7), TrendItem("", 7)>>
DayC == <<TrendItem("Python", 2), TrendItem("Python", 1), TrendItem("Go", 3)>>
DayNone == <<>>
TrendDays == {DayA, DayB, DayC, DayNone}
\* Day k of a long run: Python gains a star a day, Go loses one.
LongDay(k) == <<TrendItem("Python", k), TrendItem("Go", 40 - k)>>

TrendState(days, file, window, deltas) ==
    [name |-> "trend", stage |-> "",
     input |-> [days |-> days, file |-> file, window |-> window, deltas |-> deltas],
     hashes |-> <<>>, last_run |-> None, at |-> 0]

\* No trending collect has run, nothing analysed yet.
InitTrend ==
    /\ now = 0
    /\ stateFile = None
    /\ collectedFile = None
    /\ updatesFile = None
    /\ reportsFile = None
    /\ context = EmptyDict
    /\ pc = "idle"
    /\ mode = "normal"
    /\ today = format_date(now)
    /\ ran = NoRun
    /\ hist = None
    /\ okToday = {}
    /\ dd = TrendState(<<>>, None, <<>>, {})

TrendFrame == UNCHANGED <<now, stateFile, collectedFile, updatesFile, reportsFile,
                          mode, today, ran, hist, okToday>>

\* The collect of the next day, dated by its day number: any of the pages for
\* the first MaxTrendDays days, and the long run up to one day more than the
\* collector keeps.
TrendCollect ==
    /\ pc = "idle"
    /\ dd.name = "trend"
    /\ LET date == Len(dd.input.days) + 1
       IN  \E items \in TrendDays \cup {LongDay(date)} :
              /\ \/ items \in TrendDays /\ date <= MaxTrendDays
                 \/ /\ items = LongDay(date)
                    /\ date <= history_days + 1
                    /\ \A k \in 1..(date - 1) : dd.input.days[k] = LongDay(k)
              /\ dd' = [dd EXCEPT
                          !.input.days = Append(@, items),
                          !.input.file = trending_history_after(@, date, items)]
    /\ UNCHANGED <<context, pc>>
    /\ TrendFrame

\* TrendAnalyzerProcessor(config, storage).process(context); dd keeps the
\* dates of the days it worked on and the deltas it computed.
TrendCall ==
    /\ pc = "idle"
    /\ dd.name = "trend"
    /\ LET days == trend_days(load_history(dd.input.file))
       IN  \E order \in Orders(TrendKeys(days)) :
              /\ context' = DictSet(context, "trend_stats",
                                    trend_stats_of(dd.input.file, order))
              /\ dd' = [dd EXCEPT
                          !.input.window = [i \in 1..Len(days) |-> days[i].date],
                          !.input.deltas =
                              IF Len(days) < 2 THEN {}
                              ELSE LET d == trend_deltas(days, order)
                                   IN  {d[i] : i \in 1..Len(d)}]
    /\ pc' = "exit"
    /\ TrendFrame

NextTrend ==
    \/ TrendCollect
    \/ TrendCall

SpecTrend == InitTrend /\ [][NextTrend]_vars

TrendDone == dd.name = "trend" /\ pc = "exit"
TrendStats == context["trend_stats"]
TrendHistory == load_history(dd.input.file)
TrendWindow == {dd.input.window[i] : i \in 1..Len(dd.input.window)}
FileDates == {TrendHistory[i].date : i \in 1..Len(TrendHistory)}
\* The (at most 14) latest dates the history holds.
RecentDates ==
    {d \in FileDates : Cardinality({e \in FileDates : e > d}) < TrendWindowDays}
\* The window split by index in the order of time: the older half is the
\* shorter one when the count is odd.
OlderDates ==
    {d \in TrendWindow :
        Cardinality({e \in TrendWindow : e < d}) < Cardinality(TrendWindow) \div 2}
NewerDates == TrendWindow \ OlderDates
\* The metric sum of one category over the history entries of the given dates.
MetricSum(category, dates) ==
    TotalOf(aggregate_by_language(SelectSeq(TrendHistory, LAMBDA h : h.date \in dates)),
            category)
DeltaOf(category) ==
    (CHOOSE p \in dd.input.deltas : p.name = category).score

\* C26: on the history the trending collector keeps, the analyzer works on the
\* (at most 14) most recent days, and every category's delta is its sum over
\* the newer half of that window minus its sum over the older half, so that a
\* category that grew has a positive delta.
C26_DeltaIsNewerMinusOlder ==
    (TrendDone /\ Len(dd.input.window) >= 2) =>
        /\ TrendWindow = RecentDates
        /\ \A p \in dd.input.deltas :
              /\ p.score = MetricSum(p.name, NewerDates) - MetricSum(p.name, OlderDates)
              /\ (MetricSum(p.name, NewerDates) > MetricSum(p.name, OlderDates)
                      => p.score > 0)

\* The same two halves, read the way the analyzer reads the collector's file.
AnalyzerDeltaIsOlderMinusNewer ==
    (TrendDone /\ Len(dd.input.window) >= 2 /\ Len(dd.input.window) % 2 = 0) =>
        \A p \in dd.input.deltas :
            p.score = MetricSum(p.name, OlderDates) - MetricSum(p.name, NewerDates)

AnalyzerWindowIsOldest ==
    TrendDone =>
        TrendWindow =
            {d \in FileDates : Cardinality({e \in FileDates : e < d}) < TrendWindowDays}

Abs(x) == IF x < 0 THEN 0 - x ELSE x
ListedIn(list) == {list[i] : i \in 1..Len(list)}
DeltaClass(sign) ==
    {p.name : p \in {q \in dd.input.deltas :
                        \/ sign = 1 /\ q.score > 0
                        \/ sign = 0 - 1 /\ q.score < 0
                        \/ sign = 0 /\ q.score = 0}}
\* `list` reports class `sign`: only its members, each once, five of them or all.
ReportsClass(list, sign) ==
    /\ ListedIn(list) \subseteq DeltaClass(sign)
    /\ \A i, j \in 1..Len(list) : list[i] = list[j] => i = j
    /\ Len(list) <= TopTopics
    /\ Len(list) = TopTopics \/ ListedIn(list) = DeltaClass(sign)
\* `list` runs from the largest |delta| down and nothing left out beats a member.
LargestFirst(list, sign) ==
    /\ \A i, j \in 1..Len(list) :
          i < j => Abs(DeltaOf(list[i])) >= Abs(DeltaOf(list[j]))
    /\ \A c \in DeltaClass(sign) \ ListedIn(list) :
          \A i \in 1..Len(list) : Abs(DeltaOf(list[i])) >= Abs(DeltaOf(c))

HistoryCategories == AggKeys(aggregate_by_language(TrendHistory))
RawTotal(category) == MetricSum(category, FileDates)
\* `list` holds the (at most five) categories with the largest raw totals,
\* largest first.
TopRawTotals(list) ==
    /\ ListedIn(list) \subseteq HistoryCategories
    /\ \A i, j \in 1..Len(list) : list[i] = list[j] => i = j
    /\ Len(list) <= TopTopics
    /\ Len(list) = TopTopics \/ ListedIn(list) = HistoryCategories
    /\ \A i, j \in 1..Len(list) : i < j => RawTotal(list[i]) >= RawTotal(list[j])
    /\ \A c \in HistoryCategories \ ListedIn(list) :
          \A i \in 1..Len(list) : RawTotal(list[i]) >= RawTotal(c)
ShortReport ==
    /\ DOMAIN TrendStats = {"rising_topics", "falling_topics", "stable_topics"}
    /\ TopRawTotals(TrendStats.rising_topics)
    /\ TrendStats.falling_topics = <<>>
    /\ TrendStats.stable_topics = <<>>

\* C28 as stated: with a history of fewer than 2 days (0 or 1) the statistics
\* written to the context list the (at most 5) categories with the largest raw
\* totals as rising and carry empty falling and stable lists.
C28_ShortHistoryReportsRising ==
    (TrendDone /\ Len(TrendHistory) < 2) => ShortReport

\* C28: with a history of exactly 1 day the statistics list the (at most 5)
\* categories with the largest raw totals as rising, largest first, and carry
\* empty falling and stable lists; with no history at all the statistics are
\* the empty dict, which carries no list.
C28_OneDayReportsRising ==
    TrendDone =>
        /\ Len(TrendHistory) = 1 => ShortReport
        /\ Len(TrendHistory) = 0 => TrendStats = EmptyDict

\* One day with more than five categories: five are listed, and the first of
\* them is not the first one on the page.
C28_Witness ==
    /\ TrendDone
    /\ Len(TrendHistory) = 1
    /\ Cardinality(HistoryCategories) > TopTopics
    /\ Len(TrendStats.rising_topics) = TopTopics
    /\ TrendStats.rising_topics[1] # trend_language(TrendHistory[1].items[1])

\* ---------------------------------------------------------------------------
\* The signal normalizer (processor/signal_normalizer.py, models/signal.py),
\* called directly on a context.

\* data.get(k, default)
GetOr(data, k, default) == IF k \in DOMAIN data THEN data[k] ELSE default

\* _infer_type_from_update(tags, source, url)
infer_type(tags, source, url) ==
    LET tags_lower == {Lower(t) : t \in tags}
        src_lower  == Lower(source)
        url_lower  == Lower(url)
    IN  IF "arxiv" \in tags_lower \/ "paper" \in tags_lower \/ Contains("cs.", src_lower)
        THEN "paper"
        ELSE IF "blog" \in tags_lower \/ "research" \in tags_lower
        THEN "blog"
        ELSE IF \/ "trending" \in tags_lower
                \/ Contains("github", src_lower)
                \/ Contains("github.com", url_lower)
        THEN "code"
        ELSE "other"

\* _infer_source_from_update(tags, source, url)
infer_source(tags, source, url) ==
    LET tags_lower == {Lower(t) : t \in tags}
        src_lower  == Lower(source)
        url_lower  == Lower(url)
    IN  IF Contains("github.com", url_lower) \/ Contains("github", src_lower)
        THEN "github"
        ELSE IF "arxiv" \in tags_lower \/ Contains("arxiv.org", url_lower)
        THEN "arxiv"
        ELSE IF "blog" \in tags_lower \/ "research" \in tags_lower
        THEN "rss"
        ELSE "other"

\* Signal.from_update raises on an entry that is neither an Update nor a
\* mapping: dict(u) fails.
from_update_raises(u) == u.kind \notin {"Update", "dict"}

\* Signal.from_update(u), for an entry it does not raise on.
from_update(u) ==
    LET data   == IF u.kind = "Update" THEN to_dict(u) ELSE u
        uid    == GetOr(data, "id", "")
        title  == GetOr(data, "title", "")
        url    == GetOr(data, "url", "")
        source == GetOr(data, "source", "")
        tags   == GetOr(data, "tags", {})
    IN  [kind         |-> "Signal",
         id           |-> uid,
         type         |-> infer_type(tags, source, url),
         source       |-> infer_source(tags, source, url),
         title        |-> IF title # "" THEN title ELSE IF url # "" THEN url ELSE uid,
         summary      |-> GetOr(data, "summary", ""),
         raw_text     |-> "",
         url          |-> url,
         \* str(data.get("published_at", "") or ""): the missing date stays missing
         published_at |-> GetOr(data, "published_at", None),
         \* the tags that are not empty, each once
         topics       |-> tags \ {""},
         score        |-> GetOr(data, "score", 0),
         metrics      |-> IF "stars_today" \in DOMAIN data
                          THEN [stars_today |-> data.stars_today]
                          ELSE EmptyDict]

RECURSIVE normalize(_)
\* The loop of SignalNormalizerProcessor.process: entries that raise are skipped.
normalize(updates) ==
    IF updates = <<>> THEN <<>>
    ELSE IF from_update_raises(Head(updates)) THEN normalize(Tail(updates))
    ELSE <<from_update(Head(updates))>> \o normalize(Tail(updates))

\* A wrong normalizer: it puts its signals in the place of the working list.
signal_process_in_place(ctx) ==
    DictSet(DictSet(ctx, "signals", normalize(ctx_updates(ctx))),
            "updates", normalize(ctx_updates(ctx)))

\* SignalNormalizerProcessor.process(context): the context afterwards.
signal_process(ctx) == DictSet(ctx, "signals", normalize(ctx_updates(ctx)))

\* Entries of a working list: scored dicts as an artifact holds them, Update
\* objects with and without a trend metric and a title, a dict whose source is
\* an arXiv category, and an entry that is a bare string.
G1 == [Update("g1", "AI agent", "github", Some(0), Some(300)) EXCEPT !.score = 12]
G2 == Update("g2", "", "rss", None, None)
P1 == FilterItem("p1", "cs.AI", "", {"paper", ""}, Some(0), 3)
Junk == [kind |-> "str", text |-> "not an item"]
SignalItems == FilterItems \cup {G1, G2, P1, Junk}
SignalInputs == SeqsUpTo(SignalItems, MaxFilterLen)

InitSignal ==
    /\ now = 0
    /\ stateFile = None
    /\ collectedFile = None
    /\ updatesFile = None
    /\ reportsFile = None
    /\ pc = "idle"
    /\ mode = "normal"
    /\ today = format_date(now)
    /\ ran = NoRun
    /\ hist = None
    /\ okToday = {}
    /\ \E updates \in SignalInputs, hasKey \in BOOLEAN :
          /\ hasKey \/ updates = <<>>
          /\ context = IF hasKey THEN DictSet(EmptyDict, "updates", updates)
                       ELSE EmptyDict
          /\ dd = [name |-> "signal", stage |-> "",
                   input |-> [context |-> context],
                   hashes |-> <<>>, last_run |-> None, at |-> 0]

SignalCall ==
    /\ pc = "idle"
    /\ dd.name = "signal"
    /\ context' = signal_process(context)
    /\ pc' = "exit"
    /\ UNCHANGED <<now, stateFile, collectedFile, updatesFile, reportsFile,
                   mode, today, ran, dd, hist, okToday>>

NextSignal == SignalCall

SpecSignal == InitSignal /\ [][NextSignal]_vars

SignalDone == dd.name = "signal" /\ pc = "exit"
SignalIn == ctx_updates(dd.input.context)
\* The positions of the entries a signal can be made of, and the k-th of them.
Normalizable == {i \in 1..Len(SignalIn) : ~from_update_raises(SignalIn[i])}
NthNormalizable(k) ==
    CHOOSE i \in Normalizable : Cardinality({j \in Normalizable : j < i}) = k - 1

\* C29: the signal normalizer changes nothing of the context but its 'signals'
\* slot: the working list and every entry of it are as before.  The slot holds
\* one signal per entry a signal can be made of, in the order of the working
\* list: the k-th signal carries the id, url and score of the k-th such entry.
C29_SignalsOnly ==
    SignalDone =>
        /\ DOMAIN context = DOMAIN dd.input.context \cup {"signals"}
        /\ \A k \in DOMAIN dd.input.context :
              k # "signals" => context[k] = dd.input.context[k]
        /\ Len(context["signals"]) = Cardinality(Normalizable)
        /\ \A k \in 1..Len(context["signals"]) :
              LET s == context["signals"][k]
                  u == SignalIn[NthNormalizable(k)]
              IN  /\ s.kind = "Signal"
                  /\ s.id = u.id
                  /\ s.score = u.score
                  /\ s.url = (IF "url" \in DOMAIN u THEN u.url ELSE "")

\* A list with an entry no signal can be made of between two that differ: two
\* signals, in the order of the list, and the list as it was.
C29_Witness ==
    /\ SignalDone
    /\ Len(SignalIn) = 3
    /\ Normalizable = {1, 3}
    /\ Len(context["signals"]) = 2
    /\ context["signals"][1].id # context["signals"][2].id
    /\ context["signals"][1].metrics # EmptyDict
    /\ ctx_updates(context) = SignalIn

\* ---------------------------------------------------------------------------
\* Same-run processing and standalone replay.

\* updates.json as a process invocation writes it when it starts from `input`.
ReplayArtifact(input) == save_updates(ChainOutput(input), format_date(now))
\* A process body that completes in the run whose collect just delivered the
\* working list it holds in memory.
SameRunProcess ==
    /\ Executes("process")
    /\ ran'["process"] = "ok"
    /\ ran["collect"] = "ok"
    /\ ctx_updates(context) # <<>>

\* C30: when process runs in the run in which collect succeeded, on the list
\* held in memory, the process artifact it writes is the one a standalone
\* process invocation would write from the persisted collect artifact with the
\* same fingerprint state at the same time: same items, order and scores.
C30_SameRunEqualsReplay ==
    [][SameRunProcess =>
          /\ collectedFile # None
          /\ updatesFile' = ReplayArtifact(load_collected_updates(collectedFile))
      ]_vars

\* A normal run collected Update objects, one of them with a trend metric, and
\* processed them from memory: two scored items are in updates.json.
C30_Witness ==
    /\ mode = "normal"
    /\ ran["collect"] = "ok"
    /\ ran["process"] = "ok"
    /\ collectedFile # None
    /\ updatesFile # None
    /\ Len(updatesFile[1].updates) = 2
    /\ \E i \in 1..2 :
          /\ "stars_today" \in DOMAIN updatesFile[1].updates[i]
          /\ updatesFile[1].updates[i].score > 0
    /\ \A i \in 1..Len(ctx_updates(context)) : ctx_updates(context)[i].kind = "Update"

\* ---------------------------------------------------------------------------
\* Forced single-stage runs of collect and process (main.py --stage s --force),
\* each as one step.  dd.input keeps what updates.json held before the last
\* process run, whether process had already succeeded on that day, and
\* whether collected_updates.json has been left alone since the last process
\* success.

RerunState(last, before, again, settled) ==
    [name |-> "rerun", stage |-> last,
     input |-> [before |-> before, again |-> again, settled |-> settled],
     hashes |-> <<>>, last_run |-> None, at |-> now]

RerunCollect ==
    /\ \E items \in CollectInputs : StageCall("collect", run_collect(items, TRUE))
    /\ dd' = RerunState("collect", updatesFile, FALSE, FALSE)

RerunProcess ==
    /\ StageCall("process", run_process(0, now))
    /\ dd' = RerunState("process", updatesFile,
                        /\ dd.name = "rerun"
                        /\ dd.input.settled
                        /\ MarkerOf("process") = Some(format_date(now)),
                        TRUE)

NextRerun ==
    \/ Tick(TickHours)
    \/ RerunCollect
    \/ RerunProcess

SpecRerun == Init /\ [][NextRerun]_vars

ArtifactItems(file) == IF file = None THEN <<>> ELSE file[1].updates

\* C31: a forced run of process on a day on which process has already
\* succeeded, with the collect artifact as it was at that success, leaves
\* updates.json holding the items it held before the run.
C31_RerunKeepsItems ==
    (dd.name = "rerun" /\ dd.stage = "process" /\ dd.input.again) =>
        ArtifactItems(updatesFile) = ArtifactItems(dd.input.before)

\* What the re-run does instead: every item of the collect artifact was
\* fingerprinted by the earlier run of the day, so none passes dedup.
RerunLeavesNothing ==
    (dd.name = "rerun" /\ dd.stage = "process" /\ dd.input.again) =>
        ArtifactItems(updatesFile) = <<>>

\* ---------------------------------------------------------------------------
\* The step is a dedup call (time stands still in it; a marker write names
\* itself "set").
DedupStep == dd'.name = "dedup" /\ now' = now
\* The ids the call about to run will take for already seen: the stored list,
\* or nothing when the stored timestamp is not of the day of the call.
SeenAtCall ==
    IF last_run_date(load_state(stateFile)) = Some(format_date(now))
    THEN SeqSet(StoredHashes) ELSE {}
NoNewId(input) ==
    \A i \in 1..Len(input) : ItemId(input[i]) = "" \/ ItemId(input[i]) \in SeenAtCall

\* C32: a dedup call in which no input id is new (each is empty or among the
\* fingerprints the call takes as seen) leaves state.json as it was:
\* fingerprint list, last-run timestamp and stage markers, also when the
\* stored timestamp is of another day and the call emptied the list in memory.
C32_NoNewIdWritesNothing ==
    [][(DedupStep /\ NoNewId(dd'.input)) => stateFile' = stateFile]_vars

\* A call on a later day than the stored timestamp, with nothing new in its
\* input: the fingerprints, the timestamp of the earlier day and a stage marker
\* are still in state.json.
C32_Witness ==
    /\ dd.name = "dedup"
    /\ dd.at \div DayHours >= 1
    /\ dd.last_run # None
    /\ dd.last_run[1][1] # format_date(dd.at)
    /\ dd.hashes # <<>>
    /\ ctx_updates(context) = <<>>
    /\ StoredHashes = dd.hashes
    /\ get_last_run(stateFile) = dd.last_run
    /\ \E s \in StageSet : MarkerOf(s) # None

\* ---------------------------------------------------------------------------
\* Two invocations on one state.json.  Each makes one state update, a marker
\* write (StateStore.set_stage_last_success) or a dedup call, in two steps as
\* the code does: load_state() into a dict of its own, then save_state() of
\* that dict with its change.  dd.input.exclusive tells whether the
\* invocations run one after the other (no one reads while another is between
\* its read and its write) or interleave freely; dd.input.procs holds, per
\* invocation, where it is, what it does and the file content it read.

Invocations == {1, 2}
\* One collected item per dedup call, so that no fingerprint leaves by the cap.
ConcOps ==
    {[kind |-> "set", stage |-> s, updates |-> <<>>] : s \in StageSet}
        \cup {[kind |-> "dedup", stage |-> "", updates |-> <<u>>] : u \in StoreItems}
IdleProc == [at |-> "idle", op |-> [kind |-> "none", stage |-> "", updates |-> <<>>],
             read |-> None, wrote |-> <<>>]

ConcState(exclusive, procs) ==
    [name |-> "conc", stage |-> "",
     input |-> [exclusive |-> exclusive, procs |-> procs],
     hashes |-> <<>>, last_run |-> None, at |-> 0]

InitConc ==
    /\ now = 0
    /\ stateFile = None
    /\ collectedFile = None
    /\ updatesFile = None
    /\ reportsFile = None
    /\ context = EmptyDict
    /\ pc = "idle"
    /\ mode = "normal"
    /\ today = format_date(now)
    /\ ran = NoRun
    /\ hist = None
    /\ okToday = {}
    /\ \E exclusive \in BOOLEAN :
          dd = ConcState(exclusive, [p \in Invocations |-> IdleProc])

ConcFrame == UNCHANGED <<now, collectedFile, updatesFile, reportsFile, context,
                         pc, mode, today, ran, hist, okToday>>

\* state = self.state_store.load_state() (state_store.py 39, deduplicate.py 23).
ConcRead(p) ==
    /\ dd.name = "conc"
    /\ dd.input.procs[p].at = "idle"
    /\ dd.input.exclusive =>
          \A q \in Invocations \ {p} : dd.input.procs[q].at # "loaded"
    /\ \E op \in ConcOps :
          dd' = [dd EXCEPT !.input.procs[p] =
                    [at |-> "loaded", op |-> op, read |-> stateFile, wrote |-> <<>>]]
    /\ UNCHANGED stateFile
    /\ ConcFrame

\* The rest of the call on the dict read before: the change and, when the
\* call saves, the write of the whole dict (state_store.py 40-43,
\* deduplicate.py 26-51).  `wrote` keeps the ids the call appended.
ConcWrite(p) ==
    /\ dd.name = "conc"
    /\ dd.input.procs[p].at = "loaded"
    /\ LET me == dd.input.procs[p]
           r  == Deduplicate_process(me.op.updates, me.read, now)
       IN  /\ stateFile' =
                  IF me.op.kind = "set"
                  THEN set_stage_last_success(me.read, me.op.stage, format_date(now))
                  ELSE IF r.updates # <<>> THEN r.file ELSE stateFile
           /\ dd' = [dd EXCEPT !.input.procs[p].at = "done",
                               !.input.procs[p].wrote =
                                   IF me.op.kind = "set" THEN <<>> ELSE IdsOf(r.updates)]
    /\ ConcFrame

NextConc == \E p \in Invocations : ConcRead(p) \/ ConcWrite(p)

SpecConc == InitConc /\ [][NextConc]_vars

\* The update invocation p completed is no longer in state.json.
LostUpdate(p) ==
    LET me == dd.input.procs[p]
    IN  /\ me.at = "done"
        /\ \/ me.op.kind = "set" /\ MarkerOf(me.op.stage) # Some(format_date(now))
           \/ \E i \in 1..Len(me.wrote) : me.wrote[i] \notin SeqSet(StoredHashes)

\* C33: when the invocations have state.json one at a time, no completed
\* update (a success marker or appended fingerprints) is ever missing from the
\* file; when they interleave, a state is reachable in which the full write of
\* one invocation has removed the update of the other.
C33_SequentialAccessLosesNothing ==
    (dd.name = "conc" /\ dd.input.exclusive) =>
        \A p \in Invocations : ~LostUpdate(p)

\* Interleaved: a marker written by one invocation is gone after the other
\* wrote the dict it had read earlier together with its fingerprints.
C33_Witness ==
    /\ dd.name = "conc"
    /\ ~dd.input.exclusive
    /\ \E p, q \in Invocations :
          /\ p # q
          /\ dd.input.procs[p].op.kind = "set"
          /\ LostUpdate(p)
          /\ dd.input.procs[q].at = "done"
          /\ dd.input.procs[q].op.kind = "dedup"
          /\ ~LostUpdate(q)

\* Sequential: both invocations completed and both updates are in the file.
SequentialBothKept ==
    /\ dd.name = "conc"
    /\ dd.input.exclusive
    /\ \E p, q \in Invocations :
          /\ p # q
          /\ dd.input.procs[p].op.kind = "set" /\ dd.input.procs[p].at = "done"
          /\ dd.input.procs[q].op.kind = "dedup" /\ dd.input.procs[q].at = "done"
          /\ StoredHashes # <<>>

\* ---------------------------------------------------------------------------
InWindowOf(IsBucket(_)) == SelectSeq(Remaining, IsBucket)
Smaller(a, b) == IF a <= b THEN a ELSE b

\* C34: in quota mode the output holds, of each of the two buckets, its quota
\* or all of its in-window items when these are fewer, and nothing else: what
\* a bucket leaves of its quota is filled neither from the other bucket nor
\* from 'other', so there are at most quota-A items of bucket A, at most
\* quota-B of bucket B and at most quota-A + quota-B items in all.
C34_ShortfallNotFilled ==
    (FilterDone /\ QuotaMode) =>
        /\ Len(SelectSeq(FilterOut, IsBucketA)) = Smaller(QuotaA, Len(InWindowOf(IsBucketA)))
        /\ Len(SelectSeq(FilterOut, IsBucketB)) = Smaller(QuotaB, Len(InWindowOf(IsBucketB)))
        /\ SelectSeq(FilterOut, IsOther) = <<>>
        /\ Len(FilterOut) <= QuotaA + QuotaB
        /\ Len(InWindowOf(IsBucketA)) < QuotaA =>
              SelectSeq(FilterOut, IsBucketA) = SortByScoreDesc(InWindowOf(IsBucketA))

\* Bucket A has one in-window item for a quota of two, bucket B has more than
\* its quota and there is an 'other' item: the output is one short of the sum.
C34_Witness ==
    /\ FilterDone
    /\ QuotaMode
    /\ QuotaA = 2
    /\ Len(InWindowOf(IsBucketA)) = 1
    /\ Len(InWindowOf(IsBucketB)) > QuotaB
    /\ InWindowOf(IsOther) # <<>>
    /\ Len(FilterOut) = QuotaA + QuotaB - 1

\* ---------------------------------------------------------------------------
\* Runs started without the pair (stage name, force flag): with neither, with
\* a stage name alone or with the flag alone.  Launch is main() as in Main,
\* and dd keeps the arguments of the running process.

LaunchState(stage, force) ==
    [name |-> "main", stage |-> stage, input |-> [force |-> force],
     hashes |-> <<>>, last_run |-> None, at |-> now]

\* A wrong main(): a stage name is enough for the forced branch.
Launch_stage_alone(stage, force) ==
    /\ pc = "idle"
    /\ ReportCount < MaxReports
    /\ context' = EmptyDict
    /\ today' = format_date(now)
    /\ ran' = NoRun
    /\ dd' = LaunchState(stage, force)
    /\ IF stage # ""
       THEN mode' = "forced" /\ pc' = stage
       ELSE /\ mode' = "normal"
            /\ pc' = IF load_state_raises(stateFile) THEN "raised" ELSE "collect"
    /\ UNCHANGED <<now, stateFile, collectedFile, updatesFile, reportsFile,
                   hist, okToday>>

\* main() with --stage stage ("" when absent) and --force.
Launch(stage, force) ==
    /\ pc = "idle"
    /\ ReportCount < MaxReports
    /\ context' = EmptyDict
    /\ today' = format_date(now)
    /\ ran' = NoRun
    /\ dd' = LaunchState(stage, force)
    /\ IF force /\ stage # ""
       THEN mode' = "forced" /\ pc' = stage
       ELSE /\ mode' = "normal"
            /\ pc' = IF load_state_raises(stateFile) THEN "raised" ELSE "collect"
    /\ UNCHANGED <<now, stateFile, collectedFile, updatesFile, reportsFile,
                   hist, okToday>>

NextNormal ==
    \/ Tick(DayHours)
    \/ \E stage \in StageSet \cup {""}, force \in BOOLEAN :
          ~(force /\ stage # "") /\ Launch(stage, force)
    \/ SkipStage
    \/ CollectStage
    \/ ProcessStage
    \/ GenerateStage
    \/ Exit

SpecNormal == Init /\ [][NextNormal]_vars

\* The stored success date of s, 0 while it has none.
DateOf(s) == IF MarkerOf(s) = None THEN 0 ELSE MarkerOf(s)[1]

\* C35: with normal-mode runs only, and the clock advancing between and
\* during runs, generate's success date is never later than process's and
\* process's never later than collect's (a stage without a date counting as
\* earliest), and none is later than the current date; so a stage marked done
\* on the current date has its predecessor marked done on it too.
C35_DatesOrdered ==
    /\ DateOf("generate") <= DateOf("process")
    /\ DateOf("process") <= DateOf("collect")
    /\ DateOf("collect") <= format_date(now)
    /\ \A s \in {"process", "generate"} :
          MarkerOf(s) = Some(format_date(now)) =>
              MarkerOf(IF s = "process" THEN "collect" ELSE "process")
                  = Some(format_date(now))

\* The first day's run did collect and process and failed in generate; the
\* next run, on the second day, has done collect again and process has
\* failed, so the three stages hold three different dates.
C35_Witness ==
    /\ DateOf("generate") = 0
    /\ DateOf("process") = 1
    /\ DateOf("collect") = 2
    /\ format_date(now) = 2
    /\ today = 2
    /\ ran["process"] = "raised"

\* A run that began on the first day is still going after midnight and has
\* written the first day's date for process.
C35_AcrossMidnight ==
    /\ today = 1
    /\ format_date(now) = 2
    /\ ran["process"] = "ok"
    /\ DateOf("process") = 1

\* C36: after any sequence of dedup calls from the empty state, the
\* fingerprint list in state.json holds no id twice (and no empty id).
C36_StoredIdsDistinct ==
    /\ \A i, j \in 1..Len(StoredHashes) : StoredHashes[i] = StoredHashes[j] => i = j
    /\ \A i \in 1..Len(StoredHashes) : StoredHashes[i] # ""

\* A call met an id twice in its input that the list of the same day already
\* held, next to a new id: the list was extended and saved.
C36_Witness ==
    /\ dd.name = "dedup"
    /\ dd.input = <<U1, U2, U1b>>
    /\ dd.hashes = <<"h1">>
    /\ ~DedupOnNewDate
    /\ StoredHashes = <<"h1", "h2">>

\* ---------------------------------------------------------------------------
\* The reports collection over several generate runs: single stages run alone
\* as in SpecGenerate, on several days, until reports.json holds one report
\* more than MaxReports.  dd holds what the last generate run found and did.

ReportCall ==
    \E content \in ChatResults, videos \in BOOLEAN :
        LET r == run_generate(content, videos, now)
        IN  /\ Len(ReportsOf(r.reportsFile)) <= MaxReports + 1
            /\ StageCall("generate", r)
            /\ dd' = [name |-> "report", stage |-> "generate",
                      input |-> [content |-> content, raised |-> r.raised,
                                 reports |-> reportsFile],
                      hashes |-> <<>>, last_run |-> None, at |-> now]

NextReports == Tick(DayHours) \/ CollectCall \/ ProcessCall \/ ReportCall

SpecReports == Init /\ [][NextReports]_vars

\* The step is a generate run (one that changed anything).
ReportStep == dd' # dd /\ dd'.name = "report"

\* C37: the reports collection is append-only: a generate run that returns
\* appends exactly one record, dated today, after the records it found; a
\* generate run that raises leaves the collection as it was; and no other
\* step (collect, process, the clock) touches it.
C37_ReportsAppendOnly ==
    [][LET old == ReportsOf(reportsFile)
           new == ReportsOf(reportsFile')
       IN  IF ReportStep
           THEN IF dd'.input.raised
                THEN reportsFile' = reportsFile
                ELSE /\ Len(new) = Len(old) + 1
                     /\ SubSeq(new, 1, Len(old)) = old
                     /\ new[Len(new)].date = format_date(now)
           ELSE reportsFile' = reportsFile]_vars

\* A generate run of the second day appended its report after the first
\* day's, which is still there.
C37_Witness ==
    /\ dd.name = "report"
    /\ ~dd.input.raised
    /\ Len(ReportsOf(dd.input.reports)) = 1
    /\ Len(ReportsOf(reportsFile)) = 2
    /\ ReportsOf(reportsFile)[1].date = 1
    /\ ReportsOf(reportsFile)[2].date = 2

\* A generate run raised with a report on file.
C37_RaisedWithReports ==
    /\ dd.name = "report"
    /\ dd.input.raised
    /\ Len(ReportsOf(reportsFile)) = 1

\* The arguments main() was started with lack the stage name or the flag.
LaunchedWithoutPair == dd.name = "main" /\ ~(dd.input.force /\ dd.stage # "")

C38_ForceAlone ==
    /\ LaunchedWithoutPair
    /\ dd.stage = ""
    /\ dd.input.force
    /\ MarkerOf("collect") = Some(today)
    /\ ran["collect"] = "no"
    /\ pc = "process"

=============================================================================
